---- MODULE Spec2Model ----
(***************************************************************************)
(* Retry-with-backoff and cursor pagination of the Shopify SDK             *)
(* (shopify_sdk/shopify/utils/retry.py, pagination.py, error_handler.py,   *)
(* config.py, client.py).                                                  *)
(*                                                                         *)
(* Times are integers in hundredths of a second: Sec(5) is 5.0 s.          *)
(* An optional attribute is a tuple: <<>> is None, <<v>> is the value v.   *)
(***************************************************************************)
EXTENDS Integers, Sequences, FiniteSets, TLC

VARIABLES
    config,          \* RetryHandler.config: [max_retries, retry_delay]
    pc,              \* position of the execute_with_retry call
    range_end,       \* the bound of range(...) evaluated once at the for statement
    attempt,         \* the loop variable of execute_with_retry
    last_exception,  \* the local last_exception: <<>> or <<error>>
    invocations,     \* number of times func has been invoked in this call
    sleeps,          \* durations of the time.sleep calls completed in this call
    errs,            \* the errors func raised in this call, in order
    op_result,       \* what func returned in this call: <<>> or <<value>>
    outcome,         \* what the call gave its caller
    pure_in,         \* arguments of a direct call of a helper method
    pure_out,        \* what that direct call returned
    server,          \* what paginate_all was called with: the pages behind the
                     \* query builder and the client, the key and the page size
    pag,             \* the paginate_all generator and what its consumer has seen
    threads,         \* the locals of the concurrent execute_with_retry calls
    transport,       \* the answers of session.post to one execute_query, in order
    builder,         \* a QueryBuilder: its _query_type, _fields, _variables, _variable_definitions
    handler,         \* a WebhookHandler: its _handlers registry and its settings
    product          \* a Product: its _data, _original_data, _dirty and the mutations it sent

vars == <<config, pc, range_end, attempt, last_exception, invocations,
          sleeps, errs, op_result, outcome, pure_in, pure_out,
          server, pag, threads, transport, builder, handler, product>>

retryVars == <<config, pc, range_end, attempt, last_exception, invocations,
               sleeps, errs, op_result, outcome>>

pureVars == <<pure_in, pure_out>>

pagVars == <<server, pag>>

\* what a step of execute_with_retry leaves alone
notRetryVars == <<pure_in, pure_out, server, pag, threads, transport, builder, handler, product>>

\* what a direct call of a helper method leaves alone
notPureVars == <<retryVars, server, pag, threads, transport, builder, handler, product>>

\* what a step of paginate_all leaves alone
notPagVars == <<retryVars, pure_in, pure_out, threads, transport, builder, handler, product>>

\* what a step of a concurrent execute_with_retry call leaves alone
notThreadVars == <<pc, range_end, attempt, last_exception, invocations, sleeps, errs,
                   op_result, outcome, pure_in, pure_out, server, pag, transport, builder, handler, product>>

----------------------------------------------------------------------------
(* Bounds of the model *)

MaxRetriesBound == 3

MaxAttemptIndex == 8

MaxEdges == 3

MaxPages == 3

NumThreads == 2

----------------------------------------------------------------------------
(* Numbers *)

Sec(n) == n * 100

Tenths(n) == n * 10

Min(a, b) == IF a <= b THEN a ELSE b

Max(a, b) == IF a >= b THEN a ELSE b

\* float('inf'): larger than every other duration of the model
Inf == Sec(1000000)

----------------------------------------------------------------------------
(* ShopifyConfig *)

MAX_MAX_RETRIES == 10

MAX_RETRY_DELAY == 60

\* ShopifyConfig._validate_max_retries: the values it accepts
ValidMaxRetries == 0 .. MAX_MAX_RETRIES

\* ShopifyConfig._validate_retry_delay: the values it accepts
ValidRetryDelay == 0 .. MAX_RETRY_DELAY

----------------------------------------------------------------------------
(* Exceptions *)

Classes == {"ShopifyAPIError", "ShopifyGraphQLError", "ShopifyRateLimitError",
            "ShopifyAuthError", "Timeout", "ConnectionError", "ConnectTimeout",
            "ReadTimeout", "HTTPError", "ValueError"}

\* the classes an instance of class c is an instance of
Ancestors(c) ==
    CASE c = "ShopifyAPIError"       -> {"ShopifyAPIError"}
      [] c = "ShopifyGraphQLError"   -> {"ShopifyGraphQLError", "ShopifyAPIError"}
      [] c = "ShopifyRateLimitError" -> {"ShopifyRateLimitError", "ShopifyAPIError"}
      [] c = "ShopifyAuthError"      -> {"ShopifyAuthError", "ShopifyAPIError"}
      [] c = "Timeout"               -> {"Timeout"}
      [] c = "ConnectionError"       -> {"ConnectionError"}
      [] c = "ConnectTimeout"        -> {"ConnectTimeout", "ConnectionError", "Timeout"}
      [] c = "ReadTimeout"           -> {"ReadTimeout", "Timeout"}
      [] OTHER                       -> {c}

IsInstance(error, c) == c \in Ancestors(error.cls)

NoRetryAfter == [tag |-> "none", val |-> 0]

NumRetryAfter(v) == [tag |-> "num", val |-> v]

\* a retry_after that float() rejects, such as the string "soon"
BadRetryAfter == [tag |-> "bad", val |-> 0]

\* Python truth value of error.retry_after
Truthy(ra) == CASE ra.tag = "none" -> FALSE
                [] ra.tag = "num"  -> ra.val # 0
                [] OTHER           -> TRUE

\* Python truth value of error.status_code
TruthyStatus(sc) == sc # <<>> /\ sc[1] # 0

MkError(c, sc, ra) == [cls |-> c, status_code |-> sc, retry_after |-> ra, seq |-> 0]

RetryAfterValues ==
    {NoRetryAfter, BadRetryAfter} \cup
    {NumRetryAfter(v) : v \in {Sec(0) - Sec(1), Sec(0), Tenths(1), Sec(2), Sec(5), Sec(61), Inf}}

StatusValues == {<<>>, <<0>>, <<400>>, <<429>>, <<499>>, <<500>>, <<503>>, <<599>>, <<600>>}

\* the errors the helper methods are applied to
Errors ==
    {MkError("ShopifyRateLimitError", sc, ra) : sc \in {<<>>, <<429>>, <<400>>}, ra \in RetryAfterValues}
    \cup {MkError(c, sc, NoRetryAfter) : c \in {"ShopifyAPIError", "ShopifyAuthError"}, sc \in StatusValues}
    \cup {MkError(c, <<>>, NoRetryAfter) :
            c \in {"ShopifyGraphQLError", "Timeout", "ConnectionError", "ConnectTimeout",
                   "ReadTimeout", "HTTPError", "ValueError"}}

\* the errors the operation under retry raises
OpErrors ==
    {MkError("ShopifyRateLimitError", <<>>, ra) :
        ra \in {NoRetryAfter, BadRetryAfter, NumRetryAfter(Sec(0) - Sec(1)),
                NumRetryAfter(Sec(0)), NumRetryAfter(Sec(2)), NumRetryAfter(Inf)}}
    \cup {MkError("ShopifyAPIError", sc, NoRetryAfter) : sc \in {<<400>>, <<500>>}}
    \cup {MkError(c, <<>>, NoRetryAfter) : c \in {"Timeout", "ValueError"}}

----------------------------------------------------------------------------
(* RetryHandler._is_retryable_error *)

\* IsServerStatus with an inclusive upper end
IsServerStatus_Inclusive(sc) == TruthyStatus(sc) /\ 500 <= sc[1] /\ sc[1] <= 600

\* the test of the status of an API error: error.status_code and 500 <= error.status_code < 600
IsServerStatus(sc) == TruthyStatus(sc) /\ 500 <= sc[1] /\ sc[1] < 600

\* the network exception classes named by the isinstance test
NetworkClasses == {"Timeout", "ConnectionError"}

\* _is_retryable_error without the status test of API errors
_is_retryable_error_AnyApi(error) ==
    IF IsInstance(error, "ShopifyRateLimitError") THEN TRUE
    ELSE IF IsInstance(error, "ShopifyAPIError") THEN TRUE
    ELSE IF \E c \in NetworkClasses : IsInstance(error, c) THEN TRUE
    ELSE FALSE

_is_retryable_error(error) ==
    IF IsInstance(error, "ShopifyRateLimitError") THEN TRUE
    ELSE IF IsInstance(error, "ShopifyAPIError") /\ IsServerStatus(error.status_code) THEN TRUE
    ELSE IF \E c \in NetworkClasses : IsInstance(error, c) THEN TRUE
    ELSE FALSE

----------------------------------------------------------------------------
(* RetryHandler._calculate_delay *)

\* the outcome of evaluating a block: a value, or an exception
Ret(v) == [raised |-> FALSE, val |-> v]

Raise == [raised |-> TRUE, val |-> 0]

\* the integer names bound in the namespace of retry.py (its imports and
\* its one class bind no integer; builtins has none of the names used)
ModuleInts == [n \in {} |-> 0]

\* random.uniform(0, 0.5), in hundredths
Jitters == {0, 25, 50}

\* float(error.retry_after)
FloatOf(ra) == IF ra.tag = "bad" THEN Raise ELSE Ret(ra.val)

\* the branch for a rate-limit error with a retry-after value
RetryAfterDelay(error) ==
    LET f == FloatOf(error.retry_after)
    IN  IF f.raised THEN Raise ELSE Ret(Max(0, f.val))

\* the exponential backoff branch; the name MAX_BACKOFF_EXPONENT is looked
\* up when the exponent is evaluated and raises NameError if it is unbound
ExponentialDelay(att, jitter, cfg) ==
    LET base_delay == Max(1, cfg.retry_delay)
    IN  IF "MAX_BACKOFF_EXPONENT" \notin DOMAIN ModuleInts THEN Raise
        ELSE LET exponential_delay ==
                     Sec(base_delay) * 2 ^ Min(att, ModuleInts["MAX_BACKOFF_EXPONENT"])
                 jit == (jitter * exponential_delay) \div 100
                 total_delay == Min(exponential_delay + jit, Sec(60))
             IN  Ret(Max(Tenths(1), total_delay))

\* the body of the try block of _calculate_delay
CalcDelayTry(error, att, jitter, cfg) ==
    IF IsInstance(error, "ShopifyRateLimitError") /\ Truthy(error.retry_after)
    THEN RetryAfterDelay(error)
    ELSE ExponentialDelay(att, jitter, cfg)

\* FallbackDelay given in milliseconds
FallbackDelay_Millis == Sec(1000)

\* the value returned by the except clause of _calculate_delay
FallbackDelay == Sec(1)

\* _calculate_delay whose except clause returns no delay
_calculate_delay_NoFallback(error, att, jitter, cfg) ==
    LET r == CalcDelayTry(error, att, jitter, cfg)
    IN  IF r.raised THEN 0 ELSE r.val

_calculate_delay(error, att, jitter, cfg) ==
    LET r == CalcDelayTry(error, att, jitter, cfg)
    IN  IF r.raised THEN FallbackDelay ELSE r.val

----------------------------------------------------------------------------
(* RetryHandler.execute_with_retry *)

\* the configurations a RetryHandler is constructed with
RetryDelays == {0, 1, 60}

Configs == [max_retries : (0 .. MaxRetriesBound) \cap ValidMaxRetries,
            retry_delay : RetryDelays \cap ValidRetryDelay]

\* the values the operation returns
Results == {"success", "None"}

NoOutcome == [kind |-> "none", val |-> "None", err |-> <<>>]

Returned(v) == [kind |-> "returned", val |-> v, err |-> <<>>]

Raised(e) == [kind |-> "raised", val |-> "None", err |-> <<e>>]

\* time.sleep(d) raises OverflowError for a duration it cannot represent
SleepRaises(d) == d >= Inf

\* the duration slept in the except clause around the delay computation
ExceptSleep == Sec(1)

\* BackoffSleeps that also sleeps a delay of 0
BackoffSleeps_AlwaysSleep(error, att, jitter, cfg) ==
    LET delay == _calculate_delay(error, att, jitter, cfg)
    IN  IF SleepRaises(delay) THEN <<ExceptSleep>> ELSE <<delay>>

\* the durations slept by the try/except around the delay computation
BackoffSleeps(error, att, jitter, cfg) ==
    LET delay == _calculate_delay(error, att, jitter, cfg)
    IN  IF delay > 0
        THEN IF SleepRaises(delay) THEN <<ExceptSleep>> ELSE <<delay>>
        ELSE <<>>

\* LastAttempt off by one
LastAttempt_OffByOne(att, cfg) == att > cfg.max_retries

\* the test that ends the loop on the last attempt
LastAttempt(att, cfg) == att >= cfg.max_retries

\* Remember that keeps the first exception caught
Remember_First(prev, e) == IF prev = <<>> THEN <<e>> ELSE prev

\* what the local last_exception holds after the except clause caught e
Remember(prev, e) == <<e>>

\* the statement after the loop: raise last_exception if it is set
AfterLoop(le) == IF le # <<>> THEN Raised(le[1]) ELSE Returned("None")

RetryInit ==
    /\ config \in Configs
    /\ pc = "start"
    /\ range_end = 0
    /\ attempt = 0
    /\ last_exception = <<>>
    /\ invocations = 0
    /\ sleeps = <<>>
    /\ errs = <<>>
    /\ op_result = <<>>
    /\ outcome = NoOutcome

\* entry: last_exception = None and the for statement evaluates its range
Call ==
    /\ pc = "start"
    /\ last_exception' = <<>>
    /\ range_end' = config.max_retries + 1
    /\ attempt' = 0
    /\ IF range_end' > 0
       THEN pc' = "attempt" /\ outcome' = outcome
       ELSE pc' = "done" /\ outcome' = AfterLoop(last_exception')
    /\ UNCHANGED <<config, invocations, sleeps, errs, op_result>>
    /\ UNCHANGED notRetryVars

\* AttemptReturns that returns only a truthy result and otherwise tries again
AttemptReturns_Truthy(v) ==
    /\ pc = "attempt"
    /\ invocations' = invocations + 1
    /\ op_result' = <<v>>
    /\ IF v # "None"
       THEN pc' = "done" /\ outcome' = Returned(v)
       ELSE pc' = "attempt" /\ outcome' = outcome
    /\ UNCHANGED <<config, range_end, attempt, last_exception, sleeps, errs>>
    /\ UNCHANGED notRetryVars

\* the try block returns what func returned
ReturnStep(v) ==
    /\ pc = "attempt"
    /\ invocations' = invocations + 1
    /\ op_result' = <<v>>
    /\ outcome' = Returned(v)
    /\ pc' = "done"
    /\ UNCHANGED <<config, range_end, attempt, last_exception, sleeps, errs>>

\* func(*args, **kwargs) returns v
AttemptReturns(v) ==
    /\ ReturnStep(v)
    /\ UNCHANGED notRetryVars

\* the except clause catches e
RaiseStep(e0) ==
    LET e == [e0 EXCEPT !.seq = invocations + 1]
    IN  /\ pc = "attempt"
        /\ invocations' = invocations + 1
        /\ errs' = Append(errs, e)
        /\ last_exception' = Remember(last_exception, e)
        /\ IF ~_is_retryable_error(e)
           THEN pc' = "failed" /\ outcome' = Raised(e)
           ELSE IF LastAttempt(attempt, config)
                THEN pc' = "failed" /\ outcome' = AfterLoop(last_exception')
                ELSE pc' = "backoff" /\ outcome' = outcome
        /\ UNCHANGED <<config, range_end, attempt, sleeps, op_result>>

\* func(*args, **kwargs) raises e
AttemptRaises(e0) ==
    /\ RaiseStep(e0)
    /\ UNCHANGED notRetryVars

\* Backoff with a loop variable that is never advanced
Backoff_NoAdvance(jitter) ==
    /\ pc = "backoff"
    /\ sleeps' = sleeps \o BackoffSleeps(last_exception[1], attempt, jitter, config)
    /\ pc' = "attempt"
    /\ UNCHANGED <<config, range_end, attempt, last_exception, invocations, errs,
                   op_result, outcome>>
    /\ UNCHANGED notRetryVars

\* the delay is computed and slept, and the for statement takes its next value
Backoff(jitter) ==
    /\ pc = "backoff"
    /\ sleeps' = sleeps \o BackoffSleeps(last_exception[1], attempt, jitter, config)
    /\ IF attempt + 1 < range_end
       THEN pc' = "attempt" /\ attempt' = attempt + 1 /\ outcome' = outcome
       ELSE pc' = "failed" /\ attempt' = attempt /\ outcome' = AfterLoop(last_exception)
    /\ UNCHANGED <<config, range_end, last_exception, invocations, errs, op_result>>
    /\ UNCHANGED notRetryVars

----------------------------------------------------------------------------
(* Direct calls of the helper methods *)

PureInputs == [error : Errors, attempt : 0 .. MaxAttemptIndex, jitter : Jitters,
               retry_delay : {0, 1, 2, 30, 60} \cap ValidRetryDelay]

PureCfg(in) == [max_retries |-> 3, retry_delay |-> in.retry_delay]

PureInit ==
    /\ pure_in \in PureInputs
    /\ pure_out = [op |-> "none"]

CallIsRetryable ==
    /\ pure_out.op = "none"
    /\ pure_out' = [op |-> "_is_retryable_error", val |-> _is_retryable_error(pure_in.error)]
    /\ UNCHANGED pure_in
    /\ UNCHANGED notPureVars

CallCalculateDelay ==
    /\ pure_out.op = "none"
    /\ pure_out' = [op |-> "_calculate_delay",
                    val |-> _calculate_delay(pure_in.error, pure_in.attempt,
                                             pure_in.jitter, PureCfg(pure_in))]
    /\ UNCHANGED pure_in
    /\ UNCHANGED notPureVars

----------------------------------------------------------------------------
(* Specifications *)

\* one call of execute_with_retry on a freshly constructed handler
Init ==
    /\ RetryInit
    /\ pure_in = [retry_delay |-> 1]
    /\ pure_out = [op |-> "none"]
    /\ server = <<>>
    /\ pag = <<>>
    /\ threads = <<>>
    /\ transport = <<>>
    /\ builder = <<>>
    /\ handler = <<>>
    /\ product = <<>>

Next ==
    \/ Call
    \/ \E v \in Results : AttemptReturns(v)
    \/ \E e \in OpErrors : AttemptRaises(e)
    \/ \E j \in Jitters : Backoff(j)

Spec == Init /\ [][Next]_vars

\* one direct call of _is_retryable_error or _calculate_delay
InitPure ==
    /\ PureInit
    /\ config = PureCfg(pure_in)
    /\ pc = "idle"
    /\ range_end = 0
    /\ attempt = 0
    /\ last_exception = <<>>
    /\ invocations = 0
    /\ sleeps = <<>>
    /\ errs = <<>>
    /\ op_result = <<>>
    /\ outcome = NoOutcome
    /\ server = <<>>
    /\ pag = <<>>
    /\ threads = <<>>
    /\ transport = <<>>
    /\ builder = <<>>
    /\ handler = <<>>
    /\ product = <<>>

NextPure ==
    \/ CallIsRetryable
    \/ CallCalculateDelay

SpecPure == InitPure /\ [][NextPure]_vars

----------------------------------------------------------------------------
(* Properties of execute_with_retry (specification Spec) *)

\* the classification of errors as the retry contract states it
ContractRetryable(e) ==
    IF IsInstance(e, "ShopifyRateLimitError") THEN TRUE
    ELSE IF IsInstance(e, "ShopifyAPIError")
         THEN e.status_code # <<>> /\ e.status_code[1] \in 500 .. 599
         ELSE IsInstance(e, "Timeout") \/ IsInstance(e, "ConnectionError")

\* the call ended by raising after every attempt failed with a retryable error
Exhausted ==
    /\ pc = "failed"
    /\ errs # <<>>
    /\ \A i \in 1 .. Len(errs) : ContractRetryable(errs[i])

\* a failure after which the computed delay is 0: a rate-limit error whose
\* retry-after value is negative
ZeroDelayError(e) ==
    /\ IsInstance(e, "ShopifyRateLimitError")
    /\ e.retry_after.tag = "num"
    /\ e.retry_after.val < 0

\* C1: one call of execute_with_retry invokes the operation at most
\* max_retries + 1 times, whatever the outcomes of the invocations are.
C1_InvocationBound == invocations <= config.max_retries + 1

C1_Witness ==
    /\ pc = "failed"
    /\ config.max_retries = 2
    /\ invocations = 3

\* C2 as stated: a permanently failing retryable operation is invoked
\* exactly n + 1 times and the call sleeps exactly n times before the error
\* propagates.
C2_Original ==
    Exhausted => invocations = config.max_retries + 1 /\ Len(sleeps) = config.max_retries

\* C2 amended: a permanently failing retryable operation is invoked exactly
\* n + 1 times; the call sleeps once after each of the first n failures
\* whose computed delay is positive and not after one whose delay is 0, so
\* at most n times, never after the final failure, and the error reaches
\* the caller only after the last invocation.
C2_RetryBound ==
    /\ Exhausted =>
         /\ invocations = config.max_retries + 1
         /\ outcome.kind = "raised"
         /\ Len(sleeps) = config.max_retries
                - Cardinality({i \in 1 .. config.max_retries : ZeroDelayError(errs[i])})
         /\ Len(sleeps) <= config.max_retries
    /\ (outcome.kind = "raised" /\ ContractRetryable(outcome.err[1]))
         => invocations = config.max_retries + 1

C2_Witness ==
    /\ Exhausted
    /\ config.max_retries = 2
    /\ ZeroDelayError(errs[1])
    /\ Len(sleeps) = 1

\* C3: a non-retryable error ends the call at once: it is raised to the
\* caller, no invocation and no sleep follow it, and when it occurs on the
\* first attempt the operation has been invoked exactly once.
C3_NonRetryableImmediate ==
    /\ \A i \in 1 .. Len(errs) :
         ~ContractRetryable(errs[i]) =>
            /\ i = Len(errs)
            /\ pc = "failed"
            /\ outcome = Raised(errs[i])
            /\ invocations = i
            /\ op_result = <<>>
            /\ Len(sleeps) <= i - 1
    /\ (errs # <<>> /\ ~ContractRetryable(errs[1])) => invocations = 1 /\ sleeps = <<>>

C3_Witness ==
    /\ Len(errs) = 2
    /\ ~ContractRetryable(errs[2])
    /\ errs[2].cls = "ShopifyAPIError"
    /\ config.max_retries = 3
    /\ pc = "failed"

\* once the operation has returned, the call has returned that value and
\* has invoked the operation once more than it failed
C4_State ==
    op_result # <<>> =>
        /\ pc = "done"
        /\ outcome = Returned(op_result[1])
        /\ invocations = Len(errs) + 1
        /\ (errs = <<>> => invocations = 1 /\ sleeps = <<>>)

\* after the operation has returned, nothing is invoked or slept
C4_Step == op_result # <<>> => invocations' = invocations /\ sleeps' = sleeps

\* C4: a first invocation that succeeds makes the call return the
\* operation's result after exactly one invocation and no sleep, and after
\* the first successful invocation no invocation and no sleep occur.
C4_SuccessEndsCall == [](C4_State) /\ [][C4_Step]_vars

C4_Witness ==
    /\ pc = "done"
    /\ outcome = Returned("None")
    /\ invocations = 1
    /\ config.max_retries = 3

\* C9: when every one of the max_retries + 1 attempts fails with a
\* retryable error, the call raises the error of the final attempt itself.
C9_RaisesFinalError ==
    Exhausted => outcome = Raised(errs[Len(errs)]) /\ outcome.err[1].seq = invocations

C9_Witness ==
    /\ Exhausted
    /\ Len(errs) = 3
    /\ errs[1].cls = "Timeout"
    /\ errs[3].cls = "ShopifyRateLimitError"
    /\ outcome.err[1].cls = "ShopifyRateLimitError"

\* the try body of _calculate_delay raises for the error just caught
DelayComputationRaises ==
    \A j \in Jitters : CalcDelayTry(last_exception[1], attempt, j, config).raised

\* C10: when computing the delay raises, the call sleeps a fixed 1.0 s and
\* goes on to the next attempt; nothing is raised to the caller and the
\* invocation count is untouched.
C10_DelayFailureFallback ==
    [][(pc = "backoff" /\ DelayComputationRaises) =>
          /\ sleeps' = Append(sleeps, Sec(1))
          /\ pc' = "attempt"
          /\ attempt' = attempt + 1
          /\ invocations' = invocations
          /\ outcome' = NoOutcome
          /\ last_exception' = last_exception]_vars

C10_Witness ==
    /\ pc = "attempt"
    /\ Len(errs) = 2
    /\ errs[2].retry_after.tag = "bad"
    /\ errs[1].retry_after = NumRetryAfter(Sec(2))
    /\ sleeps = <<Sec(2), Sec(1)>>

----------------------------------------------------------------------------
(* Properties of the helper methods (specification SpecPure) *)

\* C5: _is_retryable_error answers by first match: rate-limit error, then
\* API error with a status in 500..599, then network timeout or connection
\* error; everything else is not retryable.
C5_Classification ==
    pure_out.op = "_is_retryable_error" => pure_out.val = ContractRetryable(pure_in.error)

C5_Witness ==
    /\ pure_out.op = "_is_retryable_error"
    /\ pure_in.error.cls = "ShopifyAuthError"
    /\ pure_in.error.status_code = <<599>>
    /\ pure_out.val = TRUE

\* C6 as stated: for a rate-limit error carrying a numeric retry-after
\* value r, _calculate_delay returns exactly max(0, r) at every attempt
\* index, with no backoff, jitter or 60-second cap.
C6_Original ==
    (/\ pure_out.op = "_calculate_delay"
     /\ IsInstance(pure_in.error, "ShopifyRateLimitError")
     /\ pure_in.error.retry_after.tag = "num")
    => pure_out.val = Max(0, pure_in.error.retry_after.val)

\* C7 as stated: for an error without a retry-after value and jitter draw j,
\* _calculate_delay(error, a) = min(retry_delay * 2^min(a, 6) * (1 + j), 60.0).
C7_Original ==
    (/\ pure_out.op = "_calculate_delay"
     /\ pure_in.error.retry_after.tag = "none")
    => pure_out.val * 100 =
          Min(Sec(pure_in.retry_delay) * 2 ^ Min(pure_in.attempt, 6) * (100 + pure_in.jitter),
              Sec(60) * 100)

\* C8: for an error without a retry-after value, every retry_delay and
\* every attempt index, the delay is at least 0.1 s and at most 60.0 s.
C8_DelayRange ==
    (/\ pure_out.op = "_calculate_delay"
     /\ pure_in.error.retry_after.tag = "none")
    => Tenths(1) <= pure_out.val /\ pure_out.val <= Sec(60)

C8_Witness ==
    /\ pure_out.op = "_calculate_delay"
    /\ pure_in.error.cls = "ValueError"
    /\ pure_in.retry_delay = 0
    /\ pure_in.attempt = 7
    /\ pure_out.val >= Tenths(1)

----------------------------------------------------------------------------
(* Page responses: the values of a decoded GraphQL response *)

\* a key that the mapping does not have
Absent == [tag |-> "absent", b |-> FALSE, n |-> 0]

\* null, Python None
Null == [tag |-> "null", b |-> FALSE, n |-> 0]

Bool(v) == [tag |-> "bool", b |-> v, n |-> 0]

\* a string: 0 is the empty string, c > 0 the cursor token c
Str(c) == [tag |-> "str", b |-> FALSE, n |-> c]

\* a node object with identity i > 0
Item(i) == [tag |-> "dict", b |-> FALSE, n |-> i]

\* the empty mapping {} as a value
EmptyDict == [tag |-> "dict", b |-> FALSE, n |-> 0]

\* the empty mapping {} as a pageInfo
EmptyMapping == [hasNextPage |-> Absent, hasPreviousPage |-> Absent,
                 startCursor |-> Absent, endCursor |-> Absent]

\* Python truth value
PyTruth(v) == CASE v.tag = "bool" -> v.b
                [] v.tag = "str"  -> v.n # 0
                [] v.tag = "dict" -> v.n # 0
                [] OTHER          -> FALSE

\* mapping.get(key, default), field being what the mapping holds under key
DictGet(field, default) == IF field.tag = "absent" THEN default ELSE field

\* connection_key in data
HasKey(data, connection_key) == data.key = connection_key

\* a response without any connection
EmptyData == [key |-> "", conn |-> [pageInfo |-> <<>>, edges |-> <<>>]]

----------------------------------------------------------------------------
(* PaginationHelper: the extraction methods *)

get_page_info(data, connection_key) ==
    IF ~HasKey(data, connection_key) THEN EmptyMapping
    ELSE IF data.conn.pageInfo = <<>> THEN EmptyMapping ELSE data.conn.pageInfo[1]

\* has_next_page answering True when the field is missing
has_next_page_DefaultTrue(data, connection_key) ==
    DictGet(get_page_info(data, connection_key).hasNextPage, Bool(TRUE))

has_next_page(data, connection_key) ==
    DictGet(get_page_info(data, connection_key).hasNextPage, Bool(FALSE))

has_previous_page(data, connection_key) ==
    DictGet(get_page_info(data, connection_key).hasPreviousPage, Bool(FALSE))

\* get_next_cursor without the has_next_page test
get_next_cursor_Unguarded(data, connection_key) ==
    DictGet(get_page_info(data, connection_key).endCursor, Null)

get_next_cursor(data, connection_key) ==
    LET page_info == get_page_info(data, connection_key)
    IN  IF PyTruth(has_next_page(data, connection_key))
        THEN DictGet(page_info.endCursor, Null)
        ELSE Null

get_previous_cursor(data, connection_key) ==
    LET page_info == get_page_info(data, connection_key)
    IN  IF PyTruth(has_previous_page(data, connection_key))
        THEN DictGet(page_info.startCursor, Null)
        ELSE Null

\* connection.get("edges", [])
EdgesOf(connection) == IF connection.edges = <<>> THEN <<>> ELSE connection.edges[1]

\* extract_nodes that leaves out the edges without a node
extract_nodes_SkipMissing(data, connection_key) ==
    IF ~HasKey(data, connection_key) THEN <<>>
    ELSE LET edges == SelectSeq(EdgesOf(data.conn), LAMBDA e : e.node.tag # "absent")
         IN  [i \in 1 .. Len(edges) |-> edges[i].node]

extract_nodes(data, connection_key) ==
    IF ~HasKey(data, connection_key) THEN <<>>
    ELSE LET edges == EdgesOf(data.conn)
         IN  [i \in 1 .. Len(edges) |-> DictGet(edges[i].node, EmptyDict)]

----------------------------------------------------------------------------
(* Direct calls of the extraction methods *)

\* the node of the i-th edge of a list, by kind
EdgeOfKind(kind, i) ==
    [node |-> CASE kind = "missing" -> Absent
                [] kind = "null"    -> Null
                [] OTHER            -> Item(i)]

EdgeKinds == {"missing", "null", "item"}

\* the lists of at most n edges
EdgeLists(n) ==
    UNION {{[i \in 1 .. len |-> EdgeOfKind(kinds[i], i)] : kinds \in [1 .. len -> EdgeKinds]}
           : len \in 0 .. n}

PageInfos == [hasNextPage : {Absent, Null, Bool(TRUE), Bool(FALSE)},
              hasPreviousPage : {Absent, Bool(TRUE), Bool(FALSE)},
              startCursor : {Absent, Str(1)},
              endCursor : {Absent, Null, Str(0), Str(2)}]

Connections == [pageInfo : {<<>>} \cup {<<pi>> : pi \in PageInfos},
                edges : {<<>>} \cup {<<es>> : es \in EdgeLists(MaxEdges)}]

\* a response holds one connection, under the key "products" or "orders",
\* or none at all
Responses == [key : {"orders", "products"}, conn : Connections] \cup {EmptyData}

PageInputs == [data : Responses, connection_key : {"products", "customers"}]

PagePureInit ==
    /\ pure_in \in PageInputs
    /\ pure_out = [op |-> "none"]

\* the answer of one extraction method to the arguments in pure_in
Answer(op, val) ==
    /\ pure_out.op = "none"
    /\ pure_out' = [op |-> op, val |-> val]
    /\ UNCHANGED pure_in
    /\ UNCHANGED notPureVars

CallGetPageInfo == Answer("get_page_info", get_page_info(pure_in.data, pure_in.connection_key))

CallHasNextPage == Answer("has_next_page", has_next_page(pure_in.data, pure_in.connection_key))

CallHasPreviousPage ==
    Answer("has_previous_page", has_previous_page(pure_in.data, pure_in.connection_key))

CallGetNextCursor ==
    Answer("get_next_cursor", get_next_cursor(pure_in.data, pure_in.connection_key))

CallGetPreviousCursor ==
    Answer("get_previous_cursor", get_previous_cursor(pure_in.data, pure_in.connection_key))

CallExtractNodes == Answer("extract_nodes", extract_nodes(pure_in.data, pure_in.connection_key))

\* one direct call of an extraction method of PaginationHelper
InitPagePure ==
    /\ PagePureInit
    /\ config = [max_retries |-> 3, retry_delay |-> 1]
    /\ pc = "idle"
    /\ range_end = 0
    /\ attempt = 0
    /\ last_exception = <<>>
    /\ invocations = 0
    /\ sleeps = <<>>
    /\ errs = <<>>
    /\ op_result = <<>>
    /\ outcome = NoOutcome
    /\ server = <<>>
    /\ pag = <<>>
    /\ threads = <<>>
    /\ transport = <<>>
    /\ builder = <<>>
    /\ handler = <<>>
    /\ product = <<>>

NextPagePure ==
    \/ CallGetPageInfo
    \/ CallHasNextPage
    \/ CallHasPreviousPage
    \/ CallGetNextCursor
    \/ CallGetPreviousCursor
    \/ CallExtractNodes

SpecPagePure == InitPagePure /\ [][NextPagePure]_vars

----------------------------------------------------------------------------
(* Properties of the extraction methods (specification SpecPagePure) *)

\* the pageInfo mapping the response holds for the key asked for, if any
RawPageInfo ==
    IF pure_in.data.key = pure_in.connection_key /\ pure_in.data.conn.pageInfo # <<>>
    THEN <<pure_in.data.conn.pageInfo[1]>>
    ELSE <<>>

\* the value of a cursor field, None when the field is missing
CursorField(f) == IF f.tag = "absent" THEN Null ELSE f

\* C13: get_next_cursor returns endCursor only when hasNextPage is true and
\* None otherwise, even if an endCursor is present; get_previous_cursor
\* does the same with startCursor and hasPreviousPage.
C13_CursorOnlyWhenMore ==
    /\ pure_out.op = "get_next_cursor" =>
         pure_out.val = IF RawPageInfo # <<>> /\ RawPageInfo[1].hasNextPage = Bool(TRUE)
                        THEN CursorField(RawPageInfo[1].endCursor)
                        ELSE Null
    /\ pure_out.op = "get_previous_cursor" =>
         pure_out.val = IF RawPageInfo # <<>> /\ RawPageInfo[1].hasPreviousPage = Bool(TRUE)
                        THEN CursorField(RawPageInfo[1].startCursor)
                        ELSE Null

C13_Witness ==
    /\ pure_out.op = "get_next_cursor"
    /\ RawPageInfo # <<>>
    /\ RawPageInfo[1].hasNextPage = Bool(FALSE)
    /\ RawPageInfo[1].endCursor = Str(2)
    /\ pure_out.val = Null

\* C14: extract_nodes returns as many elements as the connection has
\* edges, the i-th being the node of the i-th edge: {} for an edge without
\* a node key, None for an edge whose node is null.
C14_NodePerEdge ==
    (pure_out.op = "extract_nodes" /\ pure_in.data.key = pure_in.connection_key) =>
        LET es == IF pure_in.data.conn.edges = <<>> THEN <<>> ELSE pure_in.data.conn.edges[1]
        IN  /\ Len(pure_out.val) = Len(es)
            /\ \A i \in 1 .. Len(es) :
                 pure_out.val[i] = CASE es[i].node.tag = "absent" -> EmptyDict
                                     [] es[i].node.tag = "null"   -> Null
                                     [] OTHER                     -> es[i].node

C14_Witness ==
    /\ pure_out.op = "extract_nodes"
    /\ pure_in.data.key = pure_in.connection_key
    /\ pure_in.data.conn.edges = <<<<[node |-> Absent], [node |-> Null], [node |-> Item(3)]>>>>
    /\ pure_out.val = <<EmptyDict, Null, Item(3)>>

\* C15: for a response without the connection key, get_page_info returns
\* {}, has_next_page and has_previous_page False, get_next_cursor None and
\* extract_nodes []; has_next_page is False too when the connection has no
\* pageInfo or no hasNextPage field.
C15_MissingKeyDefaults ==
    /\ pure_in.data.key # pure_in.connection_key =>
         /\ pure_out.op = "get_page_info" => pure_out.val = EmptyMapping
         /\ pure_out.op = "has_next_page" => pure_out.val = Bool(FALSE)
         /\ pure_out.op = "has_previous_page" => pure_out.val = Bool(FALSE)
         /\ pure_out.op = "get_next_cursor" => pure_out.val = Null
         /\ pure_out.op = "extract_nodes" => pure_out.val = <<>>
    /\ (/\ pure_out.op = "has_next_page"
        /\ pure_in.data.key = pure_in.connection_key
        /\ \/ pure_in.data.conn.pageInfo = <<>>
           \/ pure_in.data.conn.pageInfo[1].hasNextPage = Absent)
       => pure_out.val = Bool(FALSE)

C15_Witness ==
    /\ pure_out.op = "has_next_page"
    /\ pure_in.data.key = "orders"
    /\ pure_in.connection_key = "products"
    /\ pure_in.data.conn.pageInfo # <<>>
    /\ pure_in.data.conn.pageInfo[1].hasNextPage = Bool(TRUE)
    /\ pure_out.val = Bool(FALSE)

----------------------------------------------------------------------------
(* PaginationHelper.paginate_all *)

\* connection_key.strip()
Strip(k) == IF k = " products " THEN "products" ELSE k

\* the identity of the i-th node of the p-th page
NodeId(p, i) == 10 * p + i

PageKinds == {"full", "empty_more", "last", "last_plain", "no_cursor", "null_cursor",
              "empty_cursor", "no_key", "no_page_info", "build_raises", "execute_raises"}

\* the pageInfo of the p-th page
PageInfoOf(kind, p) ==
    [hasNextPage |-> IF kind \in {"last", "last_plain"} THEN Bool(FALSE) ELSE Bool(TRUE),
     hasPreviousPage |-> Bool(p > 1),
     startCursor |-> Absent,
     endCursor |-> CASE kind \in {"no_cursor", "last_plain"} -> Absent
                     [] kind = "null_cursor"                -> Null
                     [] kind = "empty_cursor"               -> Str(0)
                     [] OTHER                               -> Str(p)]

\* the edges of the p-th page
EdgesOfKind(kind, p) ==
    CASE kind = "full"       -> <<[node |-> Item(NodeId(p, 1))], [node |-> Item(NodeId(p, 2))]>>
      [] kind = "empty_more" -> <<>>
      [] kind = "last_plain" -> <<[node |-> Absent], [node |-> Null]>>
      [] OTHER               -> <<[node |-> Item(NodeId(p, 1))]>>

\* what building and executing the query of the p-th fetch gives
PageOf(kind, p) ==
    [fail |-> CASE kind = "build_raises"   -> "build"
                [] kind = "execute_raises" -> "execute"
                [] OTHER                   -> "none",
     data |-> IF kind \in {"no_key", "build_raises", "execute_raises"} THEN EmptyData
              ELSE [key |-> "products",
                    conn |-> [pageInfo |-> IF kind = "no_page_info" THEN <<>>
                                           ELSE <<PageInfoOf(kind, p)>>,
                              edges |-> <<EdgesOfKind(kind, p)>>]]]

\* pagination ends with this page
Terminal(page) ==
    \/ page.fail # "none"
    \/ ~PyTruth(has_next_page(page.data, "products"))
    \/ ~PyTruth(get_next_cursor(page.data, "products"))

\* the chain of pages a server holds, given the kind of each page
ChainOf(kinds) == [p \in DOMAIN kinds |-> PageOf(kinds[p], p)]

\* connection keys and page sizes that pass the validation of paginate_all
ConnectionKeys == {"products", " products "}

PageSizes == {1, 250}

\* the answer to the k-th fetch
PageAt(srv, k) ==
    IF k <= Len(srv.pages) THEN srv.pages[k] ELSE [fail |-> "none", data |-> EmptyData]

\* the generator before paginate_all is called
NoGenerator ==
    [pc |-> "none", cursor |-> Null, data |-> EmptyData, nodes |-> <<>>, idx |-> 0,
     built |-> <<>>, executed |-> <<>>, yielded |-> <<>>, error |-> <<>>,
     pulls |-> 0, stop_seen |-> FALSE]

\* BuilderArgs that never passes the cursor on
BuilderArgs_NoCursor(page_size, cursor) == [first |-> page_size, after |-> Null]

\* the keyword arguments of query_builder_func
BuilderArgs(page_size, cursor) == [first |-> page_size, after |-> cursor]

\* StopOnCursor that never stops
StopOnCursor_Never(cursor) == FALSE

\* the test that ends the loop when there is no cursor for the next page
StopOnCursor(cursor) == ~PyTruth(cursor)

\* OnError that ends the sequence silently
OnError_Swallow(g, connection_key, e) == [g EXCEPT !.pc = "finished"]

\* the except clause: a RuntimeError naming the key, with e as its cause
OnError(g, connection_key, e) ==
    [g EXCEPT !.pc = "raised",
              !.error = <<[cls |-> "RuntimeError", key |-> connection_key, cause |-> e]>>]

\* the test that ends the loop after a page that has no next page
NoMorePages(data, connection_key) == ~PyTruth(has_next_page(data, connection_key))

RECURSIVE FetchPage(_, _)

RECURSIVE AfterNodes(_, _)

\* one pass of the loop body from its top up to the first yield, the end
\* of the generator or the except clause
\* (Body is a function of the generator's state, so that TLC evaluates
\* the state once where it is passed on and not at every use)
FetchPage(g0, srv) ==
    LET key == Strip(srv.connection_key)
        Body[g \in {g0}] ==
            LET k == Len(g.built) + 1
                page == PageAt(srv, k)
                args == BuilderArgs(srv.page_size, g.cursor)
                g1 == [g EXCEPT !.built = Append(@, args)]
                g2 == [g1 EXCEPT !.executed = Append(@, args)]
            IN  IF page.fail = "build" THEN OnError(g1, key, [cls |-> "ValueError", page |-> k])
                ELSE IF page.fail = "execute"
                     THEN OnError(g2, key, [cls |-> "ShopifyAPIError", page |-> k])
                     ELSE LET nodes == extract_nodes(page.data, key)
                              g3 == [g2 EXCEPT !.data = page.data, !.nodes = nodes, !.idx = 0]
                          IN  IF nodes # <<>>
                              THEN [g3 EXCEPT !.idx = 1, !.yielded = Append(@, nodes[1]),
                                              !.pc = "suspended"]
                              ELSE AfterNodes(g3, srv)
    IN  Body[g0]

\* the loop body after the nodes that goes by the endCursor of the page
\* alone, whatever the page says of hasNextPage
AfterNodes_IgnoresHasNext(g0, srv) ==
    LET key == Strip(srv.connection_key)
        Body[g \in {g0}] ==
            LET cursor == DictGet(get_page_info(g.data, key).endCursor, Null)
            IN  IF StopOnCursor(cursor)
                THEN [g EXCEPT !.cursor = cursor, !.pc = "finished"]
                ELSE FetchPage([g EXCEPT !.cursor = cursor], srv)
    IN  Body[g0]

\* the loop body after the nodes of the page have been yielded
AfterNodes(g0, srv) ==
    LET key == Strip(srv.connection_key)
        Body[g \in {g0}] ==
            IF NoMorePages(g.data, key) THEN [g EXCEPT !.pc = "finished"]
            ELSE LET cursor == get_next_cursor(g.data, key)
                 IN  IF StopOnCursor(cursor)
                     THEN [g EXCEPT !.cursor = cursor, !.pc = "finished"]
                     ELSE FetchPage([g EXCEPT !.cursor = cursor], srv)
    IN  Body[g0]

\* the generator resumed at its yield
Resume(g, srv) ==
    IF g.idx < Len(g.nodes)
    THEN [g EXCEPT !.idx = g.idx + 1, !.yielded = Append(@, g.nodes[g.idx + 1])]
    ELSE AfterNodes(g, srv)

\* the server holds a chain of pages whose last page ends the pagination
PagInit ==
    /\ \E len \in 1 .. MaxPages, key \in ConnectionKeys, page_size \in PageSizes :
          \E kinds \in [1 .. len -> PageKinds] :
             /\ Terminal(PageOf(kinds[len], len))
             /\ server = [pages |-> ChainOf(kinds), connection_key |-> key,
                          page_size |-> page_size]
    /\ pag = NoGenerator

\* PaginateAll that runs the body up to the first yield when it is called
PaginateAll_Eager ==
    /\ pag.pc = "none"
    /\ pag' = FetchPage([pag EXCEPT !.cursor = Null], server)
    /\ UNCHANGED server
    /\ UNCHANGED notPagVars

\* paginate_all(...) is called: a generator is created and none of its body runs
PaginateAll ==
    /\ pag.pc = "none"
    /\ pag' = [pag EXCEPT !.pc = "created"]
    /\ UNCHANGED server
    /\ UNCHANGED notPagVars

\* the consumer asks for the first item: the body runs from its top
PullFirst ==
    /\ pag.pc = "created"
    /\ pag' = FetchPage([pag EXCEPT !.cursor = Null, !.pulls = @ + 1], server)
    /\ UNCHANGED server
    /\ UNCHANGED notPagVars

\* the consumer asks for another item
PullNext ==
    /\ pag.pc = "suspended"
    /\ pag' = Resume([pag EXCEPT !.pulls = @ + 1], server)
    /\ UNCHANGED server
    /\ UNCHANGED notPagVars

\* the consumer asks an ended generator for an item and gets StopIteration
PullEnded ==
    /\ pag.pc \in {"finished", "raised"}
    /\ ~pag.stop_seen
    /\ pag' = [pag EXCEPT !.pulls = @ + 1, !.stop_seen = TRUE]
    /\ UNCHANGED server
    /\ UNCHANGED notPagVars

\* one use of paginate_all by one consumer
InitPag ==
    /\ PagInit
    /\ config = [max_retries |-> 3, retry_delay |-> 1]
    /\ pc = "idle"
    /\ range_end = 0
    /\ attempt = 0
    /\ last_exception = <<>>
    /\ invocations = 0
    /\ sleeps = <<>>
    /\ errs = <<>>
    /\ op_result = <<>>
    /\ outcome = NoOutcome
    /\ pure_in = [retry_delay |-> 1]
    /\ pure_out = [op |-> "none"]
    /\ threads = <<>>
    /\ transport = <<>>
    /\ builder = <<>>
    /\ handler = <<>>
    /\ product = <<>>

NextPag ==
    \/ PaginateAll
    \/ PullFirst
    \/ PullNext
    \/ PullEnded

SpecPag == InitPag /\ [][NextPag]_vars

----------------------------------------------------------------------------
(* Claims about paginate_all *)

\* what the response of a page holds, read off the response itself
RawInfo(page) ==
    IF page.data.key = "products" /\ page.data.conn.pageInfo # <<>>
    THEN page.data.conn.pageInfo[1]
    ELSE EmptyMapping

RawNodes(page) ==
    IF page.fail = "none" /\ page.data.key = "products" /\ page.data.conn.edges # <<>>
    THEN LET es == page.data.conn.edges[1]
         IN  [i \in 1 .. Len(es) |-> IF es[i].node = Absent THEN EmptyDict ELSE es[i].node]
    ELSE <<>>

RECURSIVE Concat(_, _)

\* the nodes of the first k pages, in order
Concat(pages, k) == IF k = 0 THEN <<>> ELSE Concat(pages, k - 1) \o RawNodes(pages[k])

IsPrefix(a, b) == Len(a) <= Len(b) /\ a = SubSeq(b, 1, Len(a))

NonEmptyCursor(v) == v.tag = "str" /\ v.n # 0

\* every page but the last reports hasNextPage true with a non-empty
\* endCursor, the last reports hasNextPage false, and no fetch fails
FullChain(srv) ==
    LET n == Len(srv.pages)
    IN  /\ \A k \in 1 .. n : srv.pages[k].fail = "none"
        /\ \A k \in 1 .. n - 1 : /\ RawInfo(srv.pages[k]).hasNextPage = Bool(TRUE)
                                 /\ NonEmptyCursor(RawInfo(srv.pages[k]).endCursor)
        /\ RawInfo(srv.pages[n]).hasNextPage = Bool(FALSE)

\* C11: over a full chain of pages, the consumer receives the pages' nodes
\* in order and, once the generator has ended, all of them; the builder and
\* execute_query are called once per page, with first = page_size, with
\* after = None on the first fetch and the previous page's endCursor later
C11_FullChain ==
    FullChain(server) =>
        /\ pag.pc # "raised"
        /\ pag.executed = pag.built
        /\ Len(pag.built) <= Len(server.pages)
        /\ \A k \in 1 .. Len(pag.built) :
              /\ pag.built[k].first = server.page_size
              /\ pag.built[k].after = IF k = 1 THEN Null
                                      ELSE RawInfo(server.pages[k - 1]).endCursor
        /\ IsPrefix(pag.yielded, Concat(server.pages, Len(server.pages)))
        /\ pag.pc = "finished" =>
              /\ pag.yielded = Concat(server.pages, Len(server.pages))
              /\ Len(pag.built) = Len(server.pages)

C11_Witness ==
    /\ FullChain(server)
    /\ Len(server.pages) = MaxPages
    /\ pag.pc = "finished"
    /\ Len(pag.yielded) >= 4
    /\ pag.built[2].after = Str(1)

\* the page reports hasNextPage true and carries no endCursor
Cursorless(page) ==
    /\ page.fail = "none"
    /\ RawInfo(page).hasNextPage = Bool(TRUE)
    /\ RawInfo(page).endCursor \in {Absent, Null, Str(0)}

\* the page the generator fetched last
LastFetched == Len(pag.built)

C12_State ==
    \A k \in 1 .. Min(LastFetched, Len(server.pages)) :
        Cursorless(server.pages[k]) =>
            /\ k = LastFetched
            /\ pag.error = <<>>
            /\ pag.pc \in {"suspended", "finished"}
            /\ pag.pc = "finished" => pag.yielded = Concat(server.pages, k)

C12_Step ==
    (/\ pag.pc = "suspended"
     /\ pag.idx = Len(pag.nodes)
     /\ LastFetched <= Len(server.pages)
     /\ Cursorless(server.pages[LastFetched])
     /\ pag'.pulls = pag.pulls + 1)
        => /\ pag'.pc = "finished"
           /\ pag'.built = pag.built
           /\ pag'.yielded = pag.yielded

\* C12: a page with hasNextPage true and no endCursor (absent, null or
\* empty) is the last one fetched: its items are emitted, then the generator
\* ends normally, without another fetch and without an error
C12_CursorlessPageEnds == [](C12_State) /\ [][C12_Step]_vars

C12_Witness ==
    /\ pag.pc = "finished"
    /\ LastFetched = 2
    /\ Len(server.pages) = 3
    /\ Cursorless(server.pages[2])
    /\ RawInfo(server.pages[2]).endCursor = Str(0)
    /\ pag.yielded = Concat(server.pages, 2)
    /\ Len(pag.yielded) = 3

\* the exception that building or executing the query of page k raises
CauseOf(page, k) ==
    [cls |-> IF page.fail = "build" THEN "ValueError" ELSE "ShopifyAPIError", page |-> k]

C16_State ==
    (/\ LastFetched \in 1 .. Len(server.pages)
     /\ server.pages[LastFetched].fail # "none")
        => /\ pag.pc = "raised"
           /\ pag.error = <<[cls |-> "RuntimeError",
                             key |-> "products",
                             cause |-> CauseOf(server.pages[LastFetched], LastFetched)]>>
           /\ pag.yielded = Concat(server.pages, LastFetched - 1)

C16_Step ==
    pag.pc = "raised" => /\ pag'.pc = "raised"
                         /\ pag'.yielded = pag.yielded
                         /\ pag'.built = pag.built
                         /\ pag'.executed = pag.executed

\* C16: when building or executing the query of page k raises, the
\* generator raises a RuntimeError that names the connection key and has
\* the exception as its cause; the consumer has received exactly the items
\* of pages 1..k-1; afterwards nothing is yielded or fetched, and the
\* generator never ends normally
C16_FetchErrorWrapped == [](C16_State) /\ [][C16_Step]_vars

C16_Witness ==
    /\ pag.pc = "raised"
    /\ pag.stop_seen
    /\ LastFetched = 3
    /\ server.pages[3].fail = "execute"
    /\ server.connection_key = " products "
    /\ Len(pag.yielded) = 4

\* the consumer has received every item of pages 1..k
ReceivedAll(k) == IsPrefix(Concat(server.pages, k), pag.yielded)

\* C17: nothing is fetched before the first pull; page k+1 is fetched only
\* by a pull made after every item of page k was received; a consumer that
\* has pulled exactly the items of a non-empty first page caused one fetch
C17_Lazy ==
    /\ pag.pulls = 0 => pag.built = <<>>
    /\ \A k \in 1 .. Len(server.pages) :
          LastFetched >= k + 1 => /\ ReceivedAll(k)
                                  /\ pag.pulls > Len(Concat(server.pages, k))
    /\ (/\ RawNodes(server.pages[1]) # <<>>
        /\ pag.yielded = RawNodes(server.pages[1])
        /\ pag.pulls = Len(pag.yielded)) => LastFetched = 1

C17_Witness ==
    /\ Len(server.pages) = 3
    /\ Len(RawNodes(server.pages[1])) = 2
    /\ RawInfo(server.pages[1]).hasNextPage = Bool(TRUE)
    /\ NonEmptyCursor(RawInfo(server.pages[1]).endCursor)
    /\ pag.yielded = RawNodes(server.pages[1])
    /\ pag.pulls = 2
    /\ LastFetched = 1

----------------------------------------------------------------------------
(* Concurrent calls of execute_with_retry on one RetryHandler *)

Threads == 1 .. NumThreads

\* what the operation of thread t returns: f"success_{attempt_id}"
ResultOf(t) == CASE t = 1 -> "success_1"
                 [] t = 2 -> "success_2"
                 [] OTHER -> "success_n"

\* the errors the operations of the threads raise
ThreadErrors == {MkError(c, <<>>, NoRetryAfter) : c \in {"Timeout", "ValueError"}}

\* Frame that gives every call the same locals
Frame_Shared(t) == 1

\* the frame that holds the locals of the call made by thread t
Frame(t) == t

NoLocals == [range_end |-> 0, attempt |-> 0, last_exception |-> <<>>]

NoCall == [pc |-> "start", invocations |-> 0, sleeps |-> <<>>, errs |-> <<>>,
           op_result |-> <<>>, outcome |-> NoOutcome]

ThreadsInit ==
    /\ config \in Configs
    /\ threads = [frame |-> [t \in Threads |-> NoLocals], th |-> [t \in Threads |-> NoCall]]

\* thread t enters execute_with_retry
ThreadCall(t) ==
    /\ threads.th[t].pc = "start"
    /\ threads' = [threads EXCEPT
          !.frame[Frame(t)] = [range_end |-> config.max_retries + 1, attempt |-> 0,
                               last_exception |-> <<>>],
          !.th[t].pc = "attempt"]
    /\ UNCHANGED config
    /\ UNCHANGED notThreadVars

\* the operation of thread t returns
ThreadReturns(t) ==
    /\ threads.th[t].pc = "attempt"
    /\ threads' = [threads EXCEPT
          !.th[t].invocations = @ + 1,
          !.th[t].op_result = <<ResultOf(t)>>,
          !.th[t].pc = "done",
          !.th[t].outcome = Returned(ResultOf(t))]
    /\ UNCHANGED config
    /\ UNCHANGED notThreadVars

\* the operation of thread t raises e
ThreadRaises(t, e) ==
    LET f == threads.frame[Frame(t)]
        le == Remember(f.last_exception, e)
    IN  /\ threads.th[t].pc = "attempt"
        /\ threads' = [threads EXCEPT
              !.frame[Frame(t)].last_exception = le,
              !.th[t].invocations = @ + 1,
              !.th[t].errs = Append(@, e),
              !.th[t].pc = IF ~_is_retryable_error(e) \/ LastAttempt(f.attempt, config)
                           THEN "failed" ELSE "backoff",
              !.th[t].outcome = IF ~_is_retryable_error(e) THEN Raised(e)
                                ELSE IF LastAttempt(f.attempt, config) THEN AfterLoop(le)
                                ELSE @]
        /\ UNCHANGED config
        /\ UNCHANGED notThreadVars

\* thread t computes its delay, sleeps, and its for statement takes its
\* next value
ThreadBackoff(t, jitter) ==
    LET f == threads.frame[Frame(t)]
        e == threads.th[t].errs[Len(threads.th[t].errs)]
        more == f.attempt + 1 < f.range_end
    IN  /\ threads.th[t].pc = "backoff"
        /\ threads' = [threads EXCEPT
              !.th[t].sleeps = @ \o BackoffSleeps(e, f.attempt, jitter, config),
              !.frame[Frame(t)].attempt = IF more THEN @ + 1 ELSE @,
              !.th[t].pc = IF more THEN "attempt" ELSE "failed",
              !.th[t].outcome = IF more THEN @ ELSE AfterLoop(f.last_exception)]
        /\ UNCHANGED config
        /\ UNCHANGED notThreadVars

\* NumThreads threads, each making one call on the same handler
InitThreads ==
    /\ ThreadsInit
    /\ pc = "idle"
    /\ range_end = 0
    /\ attempt = 0
    /\ last_exception = <<>>
    /\ invocations = 0
    /\ sleeps = <<>>
    /\ errs = <<>>
    /\ op_result = <<>>
    /\ outcome = NoOutcome
    /\ pure_in = [retry_delay |-> 1]
    /\ pure_out = [op |-> "none"]
    /\ server = <<>>
    /\ pag = <<>>
    /\ transport = <<>>
    /\ builder = <<>>
    /\ handler = <<>>
    /\ product = <<>>

NextThreads ==
    \/ \E t \in Threads : ThreadCall(t)
    \/ \E t \in Threads : ThreadReturns(t)
    \/ \E t \in Threads, e \in ThreadErrors : ThreadRaises(t, e)
    \/ \E t \in Threads, j \in Jitters : ThreadBackoff(t, j)

SpecThreads == InitThreads /\ [][NextThreads]_vars

\* the call of thread t has ended
Ended(t) == threads.th[t].pc \in {"done", "failed"}

\* what the outcomes of its own operation make of the call of thread t
OwnOutcome(t) ==
    LET c == threads.th[t]
    IN  /\ c.invocations <= config.max_retries + 1
        /\ c.invocations = Len(c.errs) + Len(c.op_result)
        /\ c.op_result # <<>> => c.outcome = Returned(ResultOf(t))
        /\ (Ended(t) /\ c.op_result = <<>>) =>
              /\ c.errs # <<>>
              /\ c.outcome = Raised(c.errs[Len(c.errs)])
              /\ ContractRetryable(c.errs[Len(c.errs)]) =>
                    c.invocations = config.max_retries + 1
        /\ \A i \in 1 .. Len(c.errs) - 1 : ContractRetryable(c.errs[i])
        /\ ~Ended(t) => c.outcome = NoOutcome

\* C19: under every interleaving of the calls, each call invokes its own
\* operation at most max_retries + 1 times and returns or raises as its own
\* operation's outcomes say; with max_retries >= 1 a call whose operation
\* has failed once with a timeout does not end before a second invocation
\* and returns the success of that invocation
C19_OwnAttemptCounter ==
    \A t \in Threads :
        /\ OwnOutcome(t)
        /\ (/\ config.max_retries >= 1
            /\ Ended(t)
            /\ threads.th[t].errs # <<>>
            /\ threads.th[t].errs[1].cls = "Timeout")
              => /\ threads.th[t].invocations >= 2
                 /\ threads.th[t].op_result = <<ResultOf(t)>> =>
                       threads.th[t].outcome = Returned(ResultOf(t))

C19_Witness ==
    /\ config.max_retries = 1
    /\ threads.th[1].errs = <<MkError("Timeout", <<>>, NoRetryAfter)>>
    /\ threads.th[1].outcome = Returned("success_1")
    /\ threads.th[2].errs = <<MkError("Timeout", <<>>, NoRetryAfter)>>
    /\ threads.th[2].pc = "backoff"
    /\ threads.frame[2].attempt = 0

----------------------------------------------------------------------------
(* ShopifyClient.execute_query with retry enabled *)

\* the Retry-After header of a response: absent, an integer of seconds
\* ("0", "2"), or text that int() rejects ("2.0", an HTTP date)
NoHeader == [tag |-> "none", val |-> 0]

NumHeader(n) == [tag |-> "num", val |-> n]

BadHeader == [tag |-> "bad", val |-> 0]

\* what one call of session.post, with the response it gets, comes to
Transport(kind, status, resp, header, gql) ==
    [kind |-> kind, status |-> status, resp |-> resp, header |-> header, gql |-> gql]

TransportOutcomes ==
    {Transport("ok", 200, "Response", NoHeader, "none")}
    \cup {Transport("graphql", 200, "Response", h, g) :
            h \in {NoHeader}, g \in {"throttled", "unauthorized", "other"}}
    \cup {Transport("graphql", 200, "Response", NumHeader(2), "throttled")}
    \cup {Transport("http", 429, "Response", h, "none") : h \in {NoHeader, NumHeader(0), NumHeader(2), BadHeader}}
    \cup {Transport("http", sc, r, NoHeader, "none") :
            sc \in {401, 422, 500, 503}, r \in {"Response", "Mock"}}
    \cup {Transport(k, 0, "Response", NoHeader, "none") : k \in {"timeout", "connection", "bad_json"}}

\* bool(response): a requests.Response is true when its status is below
\* 400, a Mock always
ResponseTruthy(t) == t.resp = "Mock" \/ t.status < 400

\* ShopifyAPIError(message, response=response).status_code
StatusOf(t) == IF ResponseTruthy(t) THEN <<t.status>> ELSE <<>>

\* what handle_graphql_errors raises
handle_graphql_errors(t) ==
    CASE t.gql = "unauthorized" -> MkError("ShopifyAuthError", <<>>, NoRetryAfter)
      [] t.gql = "throttled"    ->
            MkError("ShopifyRateLimitError", <<>>,
                    IF t.header.tag = "num" THEN NumRetryAfter(Sec(t.header.val))
                    ELSE NoRetryAfter)
      [] OTHER                  -> MkError("ShopifyGraphQLError", <<>>, NoRetryAfter)

\* what handle_request_error raises
handle_request_error(t) ==
    CASE t.kind = "http" /\ t.status \in {401, 403} ->
            MkError("ShopifyAuthError", StatusOf(t), NoRetryAfter)
      [] t.kind = "http" /\ t.status = 429 ->
            CASE t.header.tag = "none" -> MkError("ShopifyRateLimitError", <<>>, NoRetryAfter)
              [] t.header.tag = "num"  ->
                    MkError("ShopifyRateLimitError", <<>>, NumRetryAfter(Sec(t.header.val)))
              [] OTHER                 -> MkError("ValueError", <<>>, NoRetryAfter)
      [] t.kind = "http" -> MkError("ShopifyAPIError", StatusOf(t), NoRetryAfter)
      [] OTHER -> MkError("ShopifyAPIError", <<>>, NoRetryAfter)

ClientResult(raised, val, err) == [raised |-> raised, val |-> val, err |-> err]

\* what _execute_query does with the outcome of its transport call
_execute_query(t) ==
    CASE t.kind \in {"http", "timeout", "connection"} ->
            ClientResult(TRUE, "None", <<handle_request_error(t)>>)
      [] t.kind = "bad_json" ->
            ClientResult(TRUE, "None", <<MkError("RuntimeError", <<>>, NoRetryAfter)>>)
      [] t.kind = "graphql" ->
            ClientResult(TRUE, "None", <<handle_graphql_errors(t)>>)
      [] OTHER -> ClientResult(FALSE, "success", <<>>)

ClientConfigs == [max_retries : (0 .. MaxRetriesBound) \cap ValidMaxRetries, retry_delay : {1}]

ClientInit ==
    /\ config \in ClientConfigs
    /\ pc = "start"
    /\ range_end = 0
    /\ attempt = 0
    /\ last_exception = <<>>
    /\ invocations = 0
    /\ sleeps = <<>>
    /\ errs = <<>>
    /\ op_result = <<>>
    /\ outcome = NoOutcome
    /\ transport = <<>>
    /\ builder = <<>>
    /\ handler = <<>>
    /\ product = <<>>

\* one invocation of self._execute_query by the retry loop, t being what
\* its transport call comes to
ClientAttempt(t) ==
    LET r == _execute_query(t)
    IN  /\ transport' = Append(transport, t)
        /\ IF r.raised THEN RaiseStep(r.err[1]) ELSE ReturnStep(r.val)
        /\ UNCHANGED <<pure_in, pure_out, server, pag, threads, builder, handler, product>>

\* one call of execute_query on a client constructed with enable_retry=True
InitClient ==
    /\ ClientInit
    /\ pure_in = [retry_delay |-> 1]
    /\ pure_out = [op |-> "none"]
    /\ server = <<>>
    /\ pag = <<>>
    /\ threads = <<>>

NextClient ==
    \/ Call
    \/ \E t \in TransportOutcomes : ClientAttempt(t)
    \/ \E j \in Jitters : Backoff(j)

SpecClient == InitClient /\ [][NextClient]_vars

\* the failures the claim calls transient: a rate-limit response, a 5xx
\* response, a timeout or a connection failure of the transport
Transient(t) ==
    \/ t.kind = "http" /\ t.status = 429
    \/ t.kind = "graphql" /\ t.gql = "throttled"
    \/ t.kind = "http" /\ t.status \in 500 .. 599
    \/ t.kind \in {"timeout", "connection"}

\* C20 as stated: with retry enabled, an error reaches the caller of
\* execute_query after transient failures only when max_retries further
\* transport calls were made after the first
C20_Original ==
    (/\ outcome.kind = "raised"
     /\ \A i \in 1 .. Len(transport) : Transient(transport[i]))
        => Len(transport) = config.max_retries + 1


\* the response is HTTP 429 and carries a Retry-After header
RateLimitedWithHeader(t) == t.kind = "http" /\ t.status = 429 /\ t.header.tag # "none"

\* C21 as stated: with max_retries >= 1, when the first transport call is
\* answered with HTTP 429 carrying Retry-After, no error reaches the caller
\* on that account, and when the second transport call succeeds the call
\* returns its data after two transport calls and one wait of the
\* Retry-After duration
C21_Original ==
    (/\ config.max_retries >= 1
     /\ transport # <<>>
     /\ RateLimitedWithHeader(transport[1]))
        => /\ Len(transport) = 1 => outcome.kind # "raised"
           /\ (Len(transport) = 2 /\ transport[2].kind = "ok") =>
                 /\ outcome = Returned("success")
                 /\ transport[1].header.tag = "num"
                 /\ sleeps = <<Sec(transport[1].header.val)>>

----------------------------------------------------------------------------
(* Sleeps and invocations of one execute_with_retry call (specification Spec) *)

\* the failures of the call that have been followed by their backoff step
BackedOff == IF pc \in {"backoff", "failed"} THEN Len(errs) - 1 ELSE Len(errs)

\* the sleep the claim expects after failure e at attempt index a: the
\* computed delay when it is positive, 1.0 s when sleeping it is refused,
\* nothing when it is 0
ExpectedSleeps(e, a) ==
    {IF _calculate_delay(e, a, j, config) = 0 THEN <<>>
     ELSE IF _calculate_delay(e, a, j, config) >= Inf THEN <<Sec(1)>>
     ELSE <<_calculate_delay(e, a, j, config)>> : j \in Jitters}

\* C27 as stated: on every run the number of sleeps equals the number of
\* invocations minus one.
C27_Original == pc \in {"done", "failed"} => Len(sleeps) = invocations - 1

C27_State ==
    /\ pc = "backoff" => /\ attempt = Len(errs) - 1
                         /\ last_exception = <<errs[Len(errs)]>>
    /\ pc = "attempt" => attempt = Len(errs) /\ invocations = Len(errs)
    /\ invocations >= 1 =>
          Len(sleeps) = BackedOff
                - Cardinality({i \in 1 .. BackedOff : ZeroDelayError(errs[i])})

C27_Step ==
    pc = "backoff" =>
        /\ \E sl \in ExpectedSleeps(errs[Len(errs)], Len(errs) - 1) : sleeps' = sleeps \o sl
        /\ invocations' = invocations
        /\ attempt' = attempt + 1

\* C27 amended: every invocation after the first follows the backoff step
\* of the preceding failed invocation, which is given that failure's error
\* and the attempt indices 0, 1, 2, ... in order and sleeps at most once:
\* the computed delay when it is positive (1.0 s when that sleep is
\* refused), not at all when the delay is 0; so the number of sleeps is the
\* number of backoff steps minus those whose delay was 0.
C27_SleepBeforeRetry == [](C27_State) /\ [][C27_Step]_vars

C27_Witness ==
    /\ pc = "done"
    /\ invocations = 4
    /\ ZeroDelayError(errs[2])
    /\ errs[3].retry_after = NumRetryAfter(Sec(2))
    /\ Len(sleeps) = 2
    /\ sleeps[2] = Sec(2)

----------------------------------------------------------------------------
(* ShopifyConfig.update applied by another thread during a call *)

\* config.update(max_retries=m) with a value the validator accepts, while
\* the call is between its entry and its end
ConfigUpdate(m) ==
    /\ pc \in {"attempt", "backoff"}
    /\ m \in ValidMaxRetries
    /\ config' = [config EXCEPT !.max_retries = m]
    /\ UNCHANGED <<pc, range_end, attempt, last_exception, invocations, sleeps, errs,
                   op_result, outcome>>
    /\ UNCHANGED notRetryVars

\* one call of execute_with_retry, and a thread updating the configuration
\* the handler holds
InitUpdate ==
    /\ RetryInit
    /\ pure_in = [retry_delay |-> 1]
    /\ pure_out = [op |-> "none"]
    /\ server = <<>>
    /\ pag = <<>>
    /\ threads = <<>>
    /\ transport = <<>>
    /\ builder = <<>>
    /\ handler = <<>>
    /\ product = <<>>

NextUpdate ==
    \/ Call
    \/ \E v \in Results : AttemptReturns(v)
    \/ \E e \in OpErrors : AttemptRaises(e)
    \/ \E j \in Jitters : Backoff(j)
    \/ \E m \in 0 .. MaxRetriesBound : ConfigUpdate(m)

SpecUpdate == InitUpdate /\ [][NextUpdate]_vars

\* the value of max_retries when the call was entered
EntryMaxRetries == range_end - 1

\* C28 as stated: a call during which max_retries is updated makes the
\* invocations and sleeps of a call without the update: a permanently
\* failing retryable operation is invoked once more than the max_retries
\* of the call's entry, and no sleep follows the final failure
C28_Original ==
    Exhausted =>
        /\ invocations = EntryMaxRetries + 1
        /\ Len(sleeps) <= EntryMaxRetries

----------------------------------------------------------------------------
(* Termination of paginate_all *)

\* a consumer that keeps pulling
SpecPagLive == InitPag /\ [][NextPag]_vars /\ WF_vars(NextPag)

\* the page was served and reports hasNextPage false
ReportsLast(page) == page.fail = "none" /\ RawInfo(page).hasNextPage = Bool(FALSE)

C29_State ==
    \A k \in 1 .. Len(server.pages) :
        ReportsLast(server.pages[k]) =>
            /\ LastFetched <= k
            /\ (LastFetched = k /\ pag.pc = "finished") =>
                  pag.yielded = Concat(server.pages, k)

C29_Step ==
    (/\ pag.pc = "suspended"
     /\ pag.idx = Len(pag.nodes)
     /\ LastFetched <= Len(server.pages)
     /\ ReportsLast(server.pages[LastFetched])
     /\ pag'.pulls = pag.pulls + 1)
        => /\ pag'.pc = "finished"
           /\ pag'.built = pag.built
           /\ pag'.yielded = pag.yielded

\* C29: over a finite chain of pages a consumer that keeps pulling reaches
\* the end of the sequence; the pull after the last item of the first page
\* that reports hasNextPage false finishes the generator, and no page is
\* fetched after that page, with or without an endCursor on it
C29_Terminates ==
    /\ <>(pag.pc \in {"finished", "raised"})
    /\ [](C29_State)
    /\ [][C29_Step]_vars

C29_Witness ==
    /\ pag.pc = "finished"
    /\ Len(server.pages) = 3
    /\ LastFetched = 2
    /\ ReportsLast(server.pages[2])
    /\ RawInfo(server.pages[2]).endCursor = Str(2)
    /\ RawInfo(server.pages[3]).hasNextPage = Bool(TRUE)
    /\ pag.stop_seen

----------------------------------------------------------------------------
(* ShopifyConfig.update *)

notConfigVars == <<pc, range_end, attempt, last_exception, invocations, sleeps, errs,
                   op_result, outcome, pure_in, pure_out, server, pag, transport, builder, handler, product>>

MAX_TIMEOUT == 300

MAX_PAGE_SIZE == 250

DEFAULT_TIMEOUT == 30

DEFAULT_MAX_RETRIES == 3

DEFAULT_RETRY_DELAY == 1

DEFAULT_PAGE_SIZE == 10

\* ShopifyConfig(): the settings and the attribute MAX_PAGE_SIZE, which
\* the instance reads from its class until it is set on the instance
DefaultConfig ==
    [timeout |-> DEFAULT_TIMEOUT, max_retries |-> DEFAULT_MAX_RETRIES,
     retry_delay |-> DEFAULT_RETRY_DELAY, page_size |-> DEFAULT_PAGE_SIZE,
     MAX_PAGE_SIZE |-> MAX_PAGE_SIZE]

\* the keys that have a _validate_<key> method
ValidatedKeys == {"timeout", "max_retries", "retry_delay", "page_size"}

\* a value passed to update: an int, or something that is not an int
IntValue(n) == [int |-> TRUE, n |-> n]

NotAnInt == [int |-> FALSE, n |-> 0]

\* _validate_<key>(value) raises ValueError
Rejects(cfg, key, value) ==
    CASE key = "timeout"     -> ~value.int \/ value.n < 1 \/ value.n > MAX_TIMEOUT
      [] key = "max_retries" -> ~value.int \/ value.n < 0 \/ value.n > MAX_MAX_RETRIES
      [] key = "retry_delay" -> ~value.int \/ value.n < 0 \/ value.n > MAX_RETRY_DELAY
      [] key = "page_size"   -> ~value.int \/ value.n < 1 \/ value.n > cfg.MAX_PAGE_SIZE
      [] OTHER               -> FALSE

\* one pass of the loop of update: setattr(self, key, validator(value)) for
\* a validated key, setattr(self, key, value) for another attribute
SetItem(cfg, key, value) ==
    IF key \in ValidatedKeys /\ Rejects(cfg, key, value)
    THEN [raised |-> TRUE, cfg |-> cfg]
    ELSE [raised |-> FALSE, cfg |-> [cfg EXCEPT ![key] = value.n]]

\* the keyword arguments of the update calls
UpdateItems ==
    {[key |-> "timeout", value |-> v] :
        v \in {IntValue(0), IntValue(1), IntValue(MAX_TIMEOUT), IntValue(MAX_TIMEOUT + 1)}}
    \cup {[key |-> "max_retries", value |-> v] :
        v \in {IntValue(0 - 1), IntValue(0), IntValue(MAX_MAX_RETRIES),
               IntValue(MAX_MAX_RETRIES + 1), NotAnInt}}
    \cup {[key |-> "retry_delay", value |-> v] :
        v \in {IntValue(0 - 1), IntValue(0), IntValue(MAX_RETRY_DELAY),
               IntValue(MAX_RETRY_DELAY + 1)}}
    \cup {[key |-> "page_size", value |-> v] :
        v \in {IntValue(0), IntValue(1), IntValue(MAX_PAGE_SIZE), IntValue(MAX_PAGE_SIZE + 1)}}
    \cup {[key |-> "MAX_PAGE_SIZE", value |-> v] :
        v \in {IntValue(MAX_PAGE_SIZE), IntValue(4 * MAX_PAGE_SIZE)}}

\* update is called with one setting, with timeout and max_retries, or
\* with MAX_PAGE_SIZE and page_size
Kwargs ==
    {<<i>> : i \in UpdateItems}
    \cup {kw \in UpdateItems \X UpdateItems :
            <<kw[1].key, kw[2].key>> \in {<<"timeout", "max_retries">>,
                                          <<"MAX_PAGE_SIZE", "page_size">>}}

IdleThread == [pc |-> "idle", todo |-> <<>>, result |-> "none"]

ConfigInit ==
    /\ config = DefaultConfig
    /\ threads = [lock |-> 0, th |-> [t \in Threads |-> IdleThread]]

\* thread t calls update(**kwargs) and acquires _config_lock
UpdateBegin(t, kwargs) ==
    /\ threads.th[t].pc = "idle"
    /\ threads.lock = 0
    /\ threads' = [threads EXCEPT !.lock = t,
                                  !.th[t] = [pc |-> "update", todo |-> kwargs,
                                             result |-> "none"]]
    /\ UNCHANGED config
    /\ UNCHANGED notConfigVars

\* thread t handles its next keyword argument; a ValueError of the
\* validator leaves the with block, which releases the lock
UpdateItem(t) ==
    LET todo == threads.th[t].todo
        r == SetItem(config, todo[1].key, todo[1].value)
    IN  /\ threads.th[t].pc = "update"
        /\ todo # <<>>
        /\ config' = r.cfg
        /\ threads' = IF r.raised
                      THEN [threads EXCEPT !.lock = 0,
                                           !.th[t] = [pc |-> "idle", todo |-> <<>>,
                                                      result |-> "ValueError"]]
                      ELSE [threads EXCEPT !.th[t].todo = Tail(todo)]
        /\ UNCHANGED notConfigVars

\* the loop of thread t is over: the lock is released and update returns
UpdateEnd(t) ==
    /\ threads.th[t].pc = "update"
    /\ threads.th[t].todo = <<>>
    /\ threads' = [threads EXCEPT !.lock = 0,
                                  !.th[t] = [pc |-> "idle", todo |-> <<>>, result |-> "ok"]]
    /\ UNCHANGED config
    /\ UNCHANGED notConfigVars

\* one ShopifyConfig() updated by NumThreads threads
InitConfig ==
    /\ ConfigInit
    /\ pc = "idle"
    /\ range_end = 0
    /\ attempt = 0
    /\ last_exception = <<>>
    /\ invocations = 0
    /\ sleeps = <<>>
    /\ errs = <<>>
    /\ op_result = <<>>
    /\ outcome = NoOutcome
    /\ pure_in = [retry_delay |-> 1]
    /\ pure_out = [op |-> "none"]
    /\ server = <<>>
    /\ pag = <<>>
    /\ transport = <<>>
    /\ builder = <<>>
    /\ handler = <<>>
    /\ product = <<>>

NextConfig ==
    \/ \E t \in Threads, kwargs \in Kwargs : UpdateBegin(t, kwargs)
    \/ \E t \in Threads : UpdateItem(t)
    \/ \E t \in Threads : UpdateEnd(t)

SpecConfig == InitConfig /\ [][NextConfig]_vars

\* C30 as stated: after any sequence of update calls the stored settings
\* satisfy the construction-time bounds
C30_Original ==
    /\ config.timeout \in 1 .. MAX_TIMEOUT
    /\ config.max_retries \in 0 .. MAX_MAX_RETRIES
    /\ config.retry_delay \in 0 .. MAX_RETRY_DELAY
    /\ config.page_size \in 1 .. MAX_PAGE_SIZE

----------------------------------------------------------------------------
(* QueryBuilder shared by threads *)

notBuilderVars == <<config, pc, range_end, attempt, last_exception, invocations, sleeps,
                    errs, op_result, outcome, pure_in, pure_out, server, pag, transport,
                    handler, product>>

\* the fields the threads add
Fields == {"products", "orders"}

\* a dict with no keys
NoVariables == [n \in {} |-> 0]

\* d[name] = value on a dict
DictSet(d, name, value) ==
    [n \in DOMAIN d \cup {name} |-> IF n = name THEN value ELSE d[n]]

\* reset: the four assignments made under the lock
reset(b) ==
    [query_type |-> "query", fields |-> <<>>, variables |-> NoVariables,
     variable_definitions |-> <<>>]

\* add_field, for a field that passes the check of the arguments
add_field(b, field) == [b EXCEPT !.fields = Append(@, field)]

\* add_variable, for a name and a type that pass the check of the
\* arguments; the definition "$name: var_type" is kept as the pair
add_variable(b, name, var_type, value) ==
    [b EXCEPT !.variable_definitions = Append(@, <<name, var_type>>),
              !.variables = DictSet(@, name, value)]

\* build: ValueError without fields, else the query and a copy of the
\* variables; the query string is kept as the parts that are joined
build(b) ==
    IF b.fields = <<>>
    THEN [kind |-> "ValueError"]
    ELSE [kind |-> "ok",
          query |-> [query_type |-> b.query_type,
                     variable_definitions |-> b.variable_definitions,
                     fields |-> b.fields],
          variables |-> b.variables]

NotBuilt == [kind |-> "none"]

\* QueryBuilder() and the threads of build_query before their first call
BuilderInit ==
    /\ builder = reset(<<>>)
    /\ \E f \in [Threads -> Fields] :
          threads = [th |-> [t \in Threads |->
                        [pc |-> "reset", field |-> f[t], result |-> NotBuilt]]]

\* thread t calls builder.reset()
BuilderReset(t) ==
    /\ threads.th[t].pc = "reset"
    /\ builder' = reset(builder)
    /\ threads' = [threads EXCEPT !.th[t].pc = "add_field"]
    /\ UNCHANGED notBuilderVars

\* thread t calls builder.add_field(f)
BuilderAddField(t) ==
    /\ threads.th[t].pc = "add_field"
    /\ builder' = add_field(builder, threads.th[t].field)
    /\ threads' = [threads EXCEPT !.th[t].pc = "add_variable"]
    /\ UNCHANGED notBuilderVars

\* thread t calls builder.add_variable("first", "Int!", builder_id)
BuilderAddVariable(t) ==
    /\ threads.th[t].pc = "add_variable"
    /\ builder' = add_variable(builder, "first", "Int!", t)
    /\ threads' = [threads EXCEPT !.th[t].pc = "build"]
    /\ UNCHANGED notBuilderVars

\* thread t calls builder.build() and records what it got
BuilderBuild(t) ==
    /\ threads.th[t].pc = "build"
    /\ threads' = [threads EXCEPT !.th[t].pc = "done", !.th[t].result = build(builder)]
    /\ UNCHANGED builder
    /\ UNCHANGED notBuilderVars

InitBuilder ==
    /\ BuilderInit
    /\ config = [max_retries |-> 0, retry_delay |-> 0]
    /\ pc = "idle"
    /\ range_end = 0
    /\ attempt = 0
    /\ last_exception = <<>>
    /\ invocations = 0
    /\ sleeps = <<>>
    /\ errs = <<>>
    /\ op_result = <<>>
    /\ outcome = NoOutcome
    /\ pure_in = [retry_delay |-> 1]
    /\ pure_out = [op |-> "none"]
    /\ server = <<>>
    /\ pag = <<>>
    /\ transport = <<>>
    /\ handler = <<>>
    /\ product = <<>>

NextBuilder ==
    \/ \E t \in Threads : BuilderReset(t)
    \/ \E t \in Threads : BuilderAddField(t)
    \/ \E t \in Threads : BuilderAddVariable(t)
    \/ \E t \in Threads : BuilderBuild(t)

SpecBuilder == InitBuilder /\ [][NextBuilder]_vars

\* the elements of a sequence
Elements(seq) == {seq[i] : i \in 1 .. Len(seq)}

\* C22 as stated: whatever the interleaving, the build() of each thread
\* succeeds, its query contains the field of that thread and its
\* variables map 'first' to the id of that thread
C22_Original ==
    \A t \in Threads :
        threads.th[t].pc = "done" =>
            /\ threads.th[t].result.kind = "ok"
            /\ threads.th[t].field \in Elements(threads.th[t].result.query.fields)
            /\ threads.th[t].result.variables["first"] = t

----------------------------------------------------------------------------
(* WebhookHandler: the registry of handlers *)

notHandlerVars == <<config, pc, range_end, attempt, last_exception, invocations, sleeps,
                    errs, op_result, outcome, pure_in, pure_out, server, pag, threads,
                    transport, builder, product>>

MaxCalls == 4

\* topic.strip() on the topics of the model
StripTopic(topic) ==
    CASE topic = " orders/create " -> "orders/create"
      [] topic = "  "              -> ""
      [] OTHER                     -> topic

\* the topics passed to the registry
Topics == {"orders/create", " orders/create ", "products/update", "", "  "}

\* the functions passed as handlers, and an object that is not callable
Handlers == {"handler1", "handler2"}

NotCallable == "not_callable"

\* a dict with no topics
NoHandlers == [topic \in {} |-> <<>>]

\* list.remove(x): the list without the first occurrence of x
RECURSIVE ListRemove(_, _)
ListRemove(list, x) ==
    IF list = <<>> THEN <<>>
    ELSE IF Head(list) = x THEN Tail(list)
    ELSE <<Head(list)>> \o ListRemove(Tail(list), x)

\* register_handler that stores a fresh registry holding this handler
\* only, as an update that is lost to a concurrent one would
register_handler_Overwrite(reg, topic, h) ==
    IF StripTopic(topic) = "" \/ h = NotCallable
    THEN [raised |-> TRUE, reg |-> reg]
    ELSE [raised |-> FALSE, reg |-> [k \in {StripTopic(topic)} |-> <<h>>]]

\* register_handler: ValueError for a blank topic or a handler that is
\* not callable, else the handler is appended to the list of the topic
register_handler(reg, topic, h) ==
    IF StripTopic(topic) = "" \/ h = NotCallable
    THEN [raised |-> TRUE, reg |-> reg]
    ELSE LET key == StripTopic(topic)
             list == IF key \in DOMAIN reg THEN reg[key] ELSE <<>>
         IN  [raised |-> FALSE,
              reg |-> [k \in DOMAIN reg \cup {key} |->
                          IF k = key THEN Append(list, h) ELSE reg[k]]]

\* unregister_handler without the deletion of a list that became empty
unregister_handler_KeepEmpty(reg, topic, h) ==
    LET key == StripTopic(topic)
    IN  IF key = "" \/ key \notin DOMAIN reg \/ h \notin Elements(reg[key])
        THEN [ret |-> FALSE, reg |-> reg]
        ELSE [ret |-> TRUE, reg |-> [reg EXCEPT ![key] = ListRemove(@, h)]]

\* unregister_handler: False for a blank topic, an unknown topic or a
\* handler that list.remove does not find; else the first occurrence is
\* removed, a list that became empty is deleted, and True is returned
unregister_handler(reg, topic, h) ==
    LET key == StripTopic(topic)
    IN  IF key = "" \/ key \notin DOMAIN reg \/ h \notin Elements(reg[key])
        THEN [ret |-> FALSE, reg |-> reg]
        ELSE LET rest == ListRemove(reg[key], h)
             IN  [ret |-> TRUE,
                  reg |-> IF rest = <<>>
                          THEN [k \in DOMAIN reg \ {key} |-> reg[k]]
                          ELSE [reg EXCEPT ![key] = rest]]

\* get_handler_count
get_handler_count(reg, topic) ==
    IF StripTopic(topic) = "" THEN 0
    ELSE IF StripTopic(topic) \in DOMAIN reg THEN Len(reg[StripTopic(topic)]) ELSE 0

\* WebhookHandler(), with what the caller has counted: the calls made,
\* the registrations and the removals that succeeded for each topic, and
\* the last call of unregister_handler
RegistryInit ==
    handler = [reg |-> NoHandlers, calls |-> 0,
               registered |-> [k \in {StripTopic(t) : t \in Topics} |-> 0],
               removed |-> [k \in {StripTopic(t) : t \in Topics} |-> 0],
               last |-> [op |-> "none"]]

\* a call of register_handler(topic, h)
RegisterCall(topic, h) ==
    LET r == register_handler(handler.reg, topic, h)
        key == StripTopic(topic)
    IN  /\ handler.calls < MaxCalls
        /\ handler' = [handler EXCEPT
                          !.reg = r.reg,
                          !.calls = @ + 1,
                          !.registered[key] = IF r.raised THEN @ ELSE @ + 1,
                          !.last = [op |-> "register", raised |-> r.raised]]
        /\ UNCHANGED notHandlerVars

\* a call of unregister_handler(topic, h)
UnregisterCall(topic, h) ==
    LET r == unregister_handler(handler.reg, topic, h)
        key == StripTopic(topic)
    IN  /\ handler.calls < MaxCalls
        /\ handler' = [handler EXCEPT
                          !.reg = r.reg,
                          !.calls = @ + 1,
                          !.removed[key] = IF r.ret THEN @ + 1 ELSE @,
                          !.last = [op |-> "unregister", topic |-> topic, h |-> h,
                                    ret |-> r.ret, before |-> handler.reg]]
        /\ UNCHANGED notHandlerVars

InitRegistry ==
    /\ RegistryInit
    /\ config = [max_retries |-> 0, retry_delay |-> 0]
    /\ pc = "idle"
    /\ range_end = 0
    /\ attempt = 0
    /\ last_exception = <<>>
    /\ invocations = 0
    /\ sleeps = <<>>
    /\ errs = <<>>
    /\ op_result = <<>>
    /\ outcome = NoOutcome
    /\ pure_in = [retry_delay |-> 1]
    /\ pure_out = [op |-> "none"]
    /\ server = <<>>
    /\ pag = <<>>
    /\ threads = <<>>
    /\ transport = <<>>
    /\ builder = <<>>
    /\ product = <<>>

NextRegistry ==
    \/ \E topic \in Topics, h \in Handlers \cup {NotCallable} : RegisterCall(topic, h)
    \/ \E topic \in Topics, h \in Handlers \cup {NotCallable} : UnregisterCall(topic, h)

SpecRegistry == InitRegistry /\ [][NextRegistry]_vars

\* how often x occurs in a list
RECURSIVE Occurrences(_, _)
Occurrences(list, x) ==
    IF list = <<>> THEN 0
    ELSE (IF Head(list) = x THEN 1 ELSE 0) + Occurrences(Tail(list), x)

\* the handlers registered under a stripped topic
Registered(reg, key) == IF key \in DOMAIN reg THEN reg[key] ELSE <<>>

\* the last call was unregister_handler, and it did what C24 says
UnregisterAsStated ==
    LET l == handler.last
        key == StripTopic(l.topic)
        was == Registered(l.before, key)
        now == Registered(handler.reg, key)
    IN  /\ l.ret <=> (key # "" /\ l.h \in Elements(was))
        /\ l.ret =>
              /\ Len(now) = Len(was) - 1
              /\ Occurrences(now, l.h) = Occurrences(was, l.h) - 1
              /\ \A k \in (DOMAIN l.before \cup DOMAIN handler.reg) \ {key} :
                    Registered(handler.reg, k) = Registered(l.before, k)
        /\ ~l.ret => handler.reg = l.before

\* C24: after any sequence of register_handler and unregister_handler
\* calls no topic of the registry has an empty list, the handler count of
\* each topic is its registrations minus its successful removals, and
\* unregister_handler returns True exactly when the handler was
\* registered under the topic, removing one occurrence, and else returns
\* False and leaves the registry as it was
C24_RegistryConsistent ==
    /\ \A key \in DOMAIN handler.reg : handler.reg[key] # <<>>
    /\ \A topic \in Topics :
          StripTopic(topic) # "" =>
              get_handler_count(handler.reg, topic) =
                  handler.registered[StripTopic(topic)] - handler.removed[StripTopic(topic)]
    /\ handler.last.op = "unregister" => UnregisterAsStated

\* the same handler was registered twice under a topic whose name was
\* passed with blanks, and one occurrence has just been removed
C24_Witness ==
    /\ handler.last.op = "unregister"
    /\ handler.last.ret
    /\ handler.last.topic = " orders/create "
    /\ handler.last.before["orders/create"] = <<"handler1", "handler2", "handler1">>
    /\ handler.last.h = "handler1"
    /\ handler.reg["orders/create"] = <<"handler2", "handler1">>

----------------------------------------------------------------------------
(* WebhookHandler.handle_webhook and WebhookVerifier *)

\* the payloads: two JSON documents, a string that is not JSON, and an
\* object that is not a string
Payloads == {"{}", "{\"id\": 1}", "invalid json"}

NotAString == "not_a_str"

Secrets == {"secret", "other"}

\* base64(HMAC-SHA256(secret, payload)): different secrets or payloads give
\* different digests
_compute_signature(secret, payload) == [mac |-> TRUE, secret |-> secret, payload |-> payload]

\* text that is no digest, and the empty text
InvalidSignature == [mac |-> FALSE, secret |-> "", payload |-> "invalid_signature"]

NoText == [mac |-> FALSE, secret |-> "", payload |-> ""]

\* a header value: text, with or without the prefix "sha256="
HeaderText(prefix, text) == [prefix |-> prefix, text |-> text]

EmptyString == HeaderText(FALSE, NoText)

\* WebhookVerifier.verify_signature
verify_signature(secret, payload, signature) ==
    IF signature = EmptyString THEN FALSE
    ELSE _compute_signature(secret, payload) = signature.text

\* headers.get('X-Shopify-Hmac-Sha256', '')
SignatureHeader(items) ==
    IF "X-Shopify-Hmac-Sha256" \in DOMAIN items THEN items["X-Shopify-Hmac-Sha256"]
    ELSE EmptyString

\* verify_request that takes a request without the header as verified
verify_request_Trusting(secret, payload, items) ==
    "X-Shopify-Hmac-Sha256" \in DOMAIN items
        => verify_signature(secret, payload, SignatureHeader(items))

\* WebhookVerifier.verify_request
verify_request(secret, payload, items) ==
    verify_signature(secret, payload, SignatureHeader(items))

\* the headers argument: None, or a dict of header values
NoHeaders == [given |-> FALSE, items |-> <<>>]

HeaderDict(items) == [given |-> TRUE, items |-> items]

\* `not headers`
HeadersFalsy(headers) == ~headers.given \/ DOMAIN headers.items = {}

\* json.loads(payload) succeeds
JsonLoads(payload) == payload # "invalid json"

\* WebhookHandler(webhook_secret, verify_signature): ValueError when
\* verification is asked for without a secret; a secret of None is <<>>
WebhookHandlerNew(webhook_secret, verify) ==
    IF webhook_secret # <<>> /\ webhook_secret # <<"">>
    THEN [raised |-> FALSE, reg |-> NoHandlers, verify_signature |-> verify,
          verifier |-> webhook_secret]
    ELSE [raised |-> verify, reg |-> NoHandlers, verify_signature |-> verify,
          verifier |-> <<>>]

\* what handle_webhook returns without having looked for handlers
NotProcessed(error) ==
    [processed |-> FALSE, verified |-> FALSE, handlers_executed |-> 0,
     results |-> <<>>, error |-> error]

\* handle_webhook up to the signature check: the error it returns with,
\* or "" when it goes on
Precheck(hd, topic, payload, headers) ==
    IF StripTopic(topic) = "" THEN "Topic must be a non-empty string"
    ELSE IF payload = NotAString THEN "Payload must be a string"
    ELSE IF hd.verify_signature /\ hd.verifier # <<>>
         THEN IF HeadersFalsy(headers)
              THEN "Signature verification enabled but no headers provided"
              ELSE IF ~verify_request(hd.verifier[1], payload, headers.items)
                   THEN "Webhook signature verification failed"
                   ELSE ""
         ELSE ""

\* self._event_handlers.get(topic, []).copy()
HandlersFor(reg, topic) == IF topic \in DOMAIN reg THEN reg[topic] ELSE <<>>

\* a handler that raises when it is called
FailingHandler == "failing_handler"

\* the loop over the copied handlers: one result for each
RunHandlers(handlers) ==
    [i \in 1 .. Len(handlers) |->
        [handler |-> handlers[i], success |-> handlers[i] # FailingHandler]]

\* what handle_webhook returns after its handlers ran
Processed(hd, results) ==
    [processed |-> TRUE, verified |-> hd.verify_signature /\ hd.verifier # <<>>,
     handlers_executed |-> Len(results), results |-> results, error |-> ""]

\* handle_webhook as one call
handle_webhook(hd, topic, payload, headers) ==
    IF Precheck(hd, topic, payload, headers) # ""
    THEN NotProcessed(Precheck(hd, topic, payload, headers))
    ELSE IF ~JsonLoads(payload) THEN NotProcessed("Invalid JSON payload")
    ELSE Processed(hd, RunHandlers(HandlersFor(hd.reg, topic)))

\* the values a signature header is given
SignatureTexts ==
    {_compute_signature(secret, payload) : secret \in Secrets, payload \in Payloads}
    \cup {InvalidSignature, NoText}

HeaderValues == {HeaderText(prefix, text) : prefix \in BOOLEAN, text \in SignatureTexts}

\* the headers of the requests: none, an empty dict, a dict without the
\* signature header, one that spells it in lower case, and one with it
RequestHeaders ==
    {NoHeaders, HeaderDict([n \in {} |-> EmptyString]),
     HeaderDict([n \in {"Other"} |-> HeaderText(FALSE, InvalidSignature)]),
     HeaderDict([n \in {"x-shopify-hmac-sha256"} |->
                    HeaderText(FALSE, _compute_signature("secret", "{}"))])}
    \cup {HeaderDict([n \in {"X-Shopify-Hmac-Sha256"} |-> v]) : v \in HeaderValues}

\* the arguments of the constructor: webhook_secret is None, "" or "secret"
ConstructorArgs ==
    {[webhook_secret |-> ws, verify_signature |-> v] :
        ws \in {<<>>, <<"">>, <<"secret">>}, v \in BOOLEAN}

\* a WebhookHandler was constructed, or its construction raised ValueError
VerifyInit ==
    \E args \in ConstructorArgs :
        handler = [args |-> args,
                   obj |-> WebhookHandlerNew(args.webhook_secret, args.verify_signature),
                   calls |-> 0,
                   last |-> [op |-> "none"]]

\* register_handler("orders/create", h) on the constructed handler
VerifyRegister(h) ==
    /\ ~handler.obj.raised
    /\ handler.calls < MaxCalls
    /\ handler' = [handler EXCEPT
                      !.obj.reg = register_handler(@, "orders/create", h).reg,
                      !.calls = @ + 1,
                      !.last = [op |-> "register"]]
    /\ UNCHANGED notHandlerVars

\* handle_webhook(topic, payload, headers) on the constructed handler
VerifyHandle(topic, payload, headers) ==
    /\ ~handler.obj.raised
    /\ handler' = [handler EXCEPT
                      !.last = [op |-> "handle", topic |-> topic, payload |-> payload,
                                headers |-> headers,
                                result |-> handle_webhook(handler.obj, topic, payload,
                                                          headers)]]
    /\ UNCHANGED notHandlerVars

InitVerify ==
    /\ VerifyInit
    /\ config = [max_retries |-> 0, retry_delay |-> 0]
    /\ pc = "idle"
    /\ range_end = 0
    /\ attempt = 0
    /\ last_exception = <<>>
    /\ invocations = 0
    /\ sleeps = <<>>
    /\ errs = <<>>
    /\ op_result = <<>>
    /\ outcome = NoOutcome
    /\ pure_in = [retry_delay |-> 1]
    /\ pure_out = [op |-> "none"]
    /\ server = <<>>
    /\ pag = <<>>
    /\ threads = <<>>
    /\ transport = <<>>
    /\ builder = <<>>
    /\ product = <<>>

NextVerify ==
    \/ \E h \in {"handler1", FailingHandler} : VerifyRegister(h)
    \/ \E topic \in {"orders/create", ""},
          payload \in Payloads \cup {NotAString},
          headers \in RequestHeaders : VerifyHandle(topic, payload, headers)

SpecVerify == InitVerify /\ [][NextVerify]_vars

\* the request carries the signature of its payload under the secret, as
\* it is or after "sha256="
CarriesSignature(headers, secret, payload) ==
    /\ headers.given
    /\ "X-Shopify-Hmac-Sha256" \in DOMAIN headers.items
    /\ headers.items["X-Shopify-Hmac-Sha256"].text = _compute_signature(secret, payload)

----------------------------------------------------------------------------
(* One WebhookHandler used by threads *)

notWebhookVars == <<config, pc, range_end, attempt, last_exception, invocations, sleeps,
                    errs, op_result, outcome, pure_in, pure_out, server, pag, transport,
                    builder, product>>

\* the topic of thread t: f"orders/create_{topic_id}"
TopicOf(t) == CASE t = 1 -> "orders/create_1"
                [] t = 2 -> "orders/create_2"
                [] t = 3 -> "orders/create_3"
                [] OTHER -> "orders/create_n"

\* the payload of thread t, json.dumps of a dict
PayloadOf(t) == "{\"id\": 1}"

\* WebhookHandler() and the threads of register_and_handle before their
\* first call, each with the function it registers
WebhooksInit ==
    /\ handler = WebhookHandlerNew(<<>>, FALSE)
    /\ \E f \in [Threads -> Handlers] :
          threads = [th |-> [t \in Threads |->
                        [pc |-> "register", func |-> f[t], handlers |-> <<>>,
                         result |-> NotProcessed("")]]]

\* thread t calls register_handler(topic, handler_func)
WebhookRegister(t) ==
    /\ threads.th[t].pc = "register"
    /\ handler' = [handler EXCEPT
                      !.reg = register_handler(@, TopicOf(t), threads.th[t].func).reg]
    /\ threads' = [threads EXCEPT !.th[t].pc = "handle"]
    /\ UNCHANGED notWebhookVars

\* thread t enters handle_webhook(topic, payload): the checks of the
\* arguments and json.loads, which return at once when one fails
WebhookEnter(t) ==
    LET early == handle_webhook([handler EXCEPT !.reg = NoHandlers], TopicOf(t),
                                PayloadOf(t), NoHeaders)
    IN  /\ threads.th[t].pc = "handle"
        /\ threads' = IF early.processed
                      THEN [threads EXCEPT !.th[t].pc = "lookup"]
                      ELSE [threads EXCEPT !.th[t].pc = "unregister",
                                           !.th[t].result = early]
        /\ UNCHANGED handler
        /\ UNCHANGED notWebhookVars

\* thread t copies the handlers of its topic under the lock
WebhookLookup(t) ==
    /\ threads.th[t].pc = "lookup"
    /\ threads' = [threads EXCEPT !.th[t].pc = "run",
                                  !.th[t].handlers = HandlersFor(handler.reg, TopicOf(t))]
    /\ UNCHANGED handler
    /\ UNCHANGED notWebhookVars

\* thread t runs the copied handlers outside the lock and returns
WebhookRun(t) ==
    /\ threads.th[t].pc = "run"
    /\ threads' = [threads EXCEPT
                      !.th[t].pc = "unregister",
                      !.th[t].result = Processed(handler, RunHandlers(threads.th[t].handlers))]
    /\ UNCHANGED handler
    /\ UNCHANGED notWebhookVars

\* thread t calls unregister_handler(topic, handler_func)
WebhookUnregister(t) ==
    /\ threads.th[t].pc = "unregister"
    /\ handler' = [handler EXCEPT
                      !.reg = unregister_handler(@, TopicOf(t), threads.th[t].func).reg]
    /\ threads' = [threads EXCEPT !.th[t].pc = "done"]
    /\ UNCHANGED notWebhookVars

InitWebhooks ==
    /\ WebhooksInit
    /\ config = [max_retries |-> 0, retry_delay |-> 0]
    /\ pc = "idle"
    /\ range_end = 0
    /\ attempt = 0
    /\ last_exception = <<>>
    /\ invocations = 0
    /\ sleeps = <<>>
    /\ errs = <<>>
    /\ op_result = <<>>
    /\ outcome = NoOutcome
    /\ pure_in = [retry_delay |-> 1]
    /\ pure_out = [op |-> "none"]
    /\ server = <<>>
    /\ pag = <<>>
    /\ transport = <<>>
    /\ builder = <<>>
    /\ product = <<>>

NextWebhooks ==
    \/ \E t \in Threads : WebhookRegister(t)
    \/ \E t \in Threads : WebhookEnter(t)
    \/ \E t \in Threads : WebhookLookup(t)
    \/ \E t \in Threads : WebhookRun(t)
    \/ \E t \in Threads : WebhookUnregister(t)

SpecWebhooks == InitWebhooks /\ [][NextWebhooks]_vars

\* C23: whatever the interleaving of the threads, each on its own topic,
\* the dispatch of a thread runs the handler of that thread exactly once
\* and reports processed with handlers_executed = 1 and no error, and
\* when all threads are through the registry holds no topic
C23_OwnHandlerOnce ==
    /\ \A t \in Threads :
          threads.th[t].pc \in {"unregister", "done"} =>
              /\ threads.th[t].result.processed
              /\ threads.th[t].result.handlers_executed = 1
              /\ threads.th[t].result.results =
                    <<[handler |-> threads.th[t].func, success |-> TRUE]>>
              /\ threads.th[t].result.error = ""
    /\ (\A t \in Threads : threads.th[t].pc = "done") => DOMAIN handler.reg = {}

\* all threads are through, the first two having registered the same
\* function, and nothing is left in the registry
C23_Witness ==
    /\ \A t \in Threads : threads.th[t].pc = "done"
    /\ threads.th[1].func = threads.th[2].func
    /\ \A t \in Threads : threads.th[t].result.handlers_executed = 1
    /\ handler.reg = NoHandlers

----------------------------------------------------------------------------
(* Product: the property setters and save *)

notProductVars == <<config, pc, range_end, attempt, last_exception, invocations, sleeps,
                    errs, op_result, outcome, pure_in, pure_out, server, pag, threads,
                    transport, builder, handler>>

\* the keys save looks at, in the order of its loop
SavedKeys == <<"title", "handle", "description", "productType", "vendor", "tags">>

\* the keys of _data in the model
DataKeys == {"id"} \cup Elements(SavedKeys)

\* what a key holds: a value, or nothing when the key is not in the dict
Missing == "<missing>"

Values == {"v1", "v2"}

\* Product(client, data): _data, a copy of it as _original_data, and
\* _dirty = False
ProductNew(data) == [data |-> data, original_data |-> data, dirty |-> FALSE]

\* a property setter: self._data[key] = value; self._dirty = True
Setter(p, key, value) == [p EXCEPT !.data[key] = value, !.dirty = TRUE]

\* the input of the mutation: the id and the keys that are in _data with
\* a value other than the one of _original_data, description being sent
\* as descriptionHtml
UpdateData(p) ==
    [k \in {"id"} \cup {IF key = "description" THEN "descriptionHtml" ELSE key :
                           key \in {x \in Elements(SavedKeys) :
                                       /\ p.data[x] # Missing
                                       /\ p.data[x] # p.original_data[x]}} |->
        IF k = "descriptionHtml" THEN p.data["description"] ELSE p.data[k]]

\* what client.execute_mutation comes to: it raises, or it returns None,
\* a dict without productUpdate (as one that wraps it in 'data'), or a
\* dict with productUpdate, which holds userErrors and a product or None
ClientRaises == [kind |-> "raises", userErrors |-> 0, product |-> <<>>]

MutationResults ==
    {ClientRaises,
     [kind |-> "None", userErrors |-> 0, product |-> <<>>],
     [kind |-> "no_productUpdate", userErrors |-> 0, product |-> <<>>],
     [kind |-> "productUpdate_None", userErrors |-> 0, product |-> <<>>]}
    \cup {[kind |-> "productUpdate", userErrors |-> n, product |-> prod] :
             n \in {0, 1},
             prod \in {<<>>} \cup {<<[title |-> v]>> : v \in Values}}

\* self._data.update(product)
DataUpdate(data, prod) == [data EXCEPT !["title"] = prod.title]

\* save that clears _dirty before it sends the mutation
save_ClearsFirst(p, result) ==
    IF p.data["id"] = Missing
    THEN [p |-> p, outcome |-> "ValueError", mutations |-> <<>>]
    ELSE IF ~p.dirty
    THEN [p |-> p, outcome |-> "returned", mutations |-> <<>>]
    ELSE IF result.kind = "raises"
    THEN [p |-> [p EXCEPT !.dirty = FALSE], outcome |-> "ShopifyAPIError",
          mutations |-> <<UpdateData(p)>>]
    ELSE IF result.kind = "productUpdate" /\ result.userErrors = 0 /\ result.product # <<>>
    THEN [p |-> [data |-> DataUpdate(p.data, result.product[1]),
                 original_data |-> DataUpdate(p.data, result.product[1]),
                 dirty |-> FALSE],
          outcome |-> "returned", mutations |-> <<UpdateData(p)>>]
    ELSE [p |-> [p EXCEPT !.dirty = FALSE], outcome |-> "ValueError",
          mutations |-> <<UpdateData(p)>>]

\* save, given what execute_mutation would come to: the product after
\* it, what the caller gets, and the mutations that were sent
save(p, result) ==
    IF p.data["id"] = Missing
    THEN [p |-> p, outcome |-> "ValueError", mutations |-> <<>>]
    ELSE IF ~p.dirty
    THEN [p |-> p, outcome |-> "returned", mutations |-> <<>>]
    ELSE IF result.kind = "raises"
    THEN [p |-> p, outcome |-> "ShopifyAPIError", mutations |-> <<UpdateData(p)>>]
    ELSE IF result.kind = "productUpdate" /\ result.userErrors > 0
    THEN [p |-> p, outcome |-> "ValueError", mutations |-> <<UpdateData(p)>>]
    ELSE IF result.kind = "productUpdate" /\ result.product # <<>>
    THEN [p |-> [data |-> DataUpdate(p.data, result.product[1]),
                 original_data |-> DataUpdate(p.data, result.product[1]),
                 dirty |-> FALSE],
          outcome |-> "returned", mutations |-> <<UpdateData(p)>>]
    ELSE [p |-> p, outcome |-> "ValueError", mutations |-> <<UpdateData(p)>>]

\* a Product built from data with or without an id and without a vendor,
\* and what its user keeps track of: whether a setter was called since
\* the construction or the last save that sent a mutation and returned
ProductInit ==
    \E id \in {"gid://shopify/Product/1", Missing} :
        product = [obj |-> ProductNew([k \in DataKeys |->
                                          CASE k = "id"     -> id
                                            [] k = "vendor" -> Missing
                                            [] OTHER        -> "v1"]),
                   set_since |-> FALSE,
                   last |-> [op |-> "none"]]

\* product.<key> = value
ProductSet(key, value) ==
    /\ product' = [obj |-> Setter(product.obj, key, value),
                   set_since |-> TRUE,
                   last |-> [op |-> "set"]]
    /\ UNCHANGED notProductVars

\* product.save(), with the answer the client has for a mutation
ProductSave(result) ==
    LET r == save(product.obj, result)
    IN  /\ product' = [obj |-> r.p,
                       set_since |-> IF r.outcome = "returned" /\ r.mutations # <<>>
                                     THEN FALSE ELSE product.set_since,
                       last |-> [op |-> "save", set_before |-> product.set_since,
                                 result |-> result, outcome |-> r.outcome,
                                 mutations |-> r.mutations]]
        /\ UNCHANGED notProductVars

InitProduct ==
    /\ ProductInit
    /\ config = [max_retries |-> 0, retry_delay |-> 0]
    /\ pc = "idle"
    /\ range_end = 0
    /\ attempt = 0
    /\ last_exception = <<>>
    /\ invocations = 0
    /\ sleeps = <<>>
    /\ errs = <<>>
    /\ op_result = <<>>
    /\ outcome = NoOutcome
    /\ pure_in = [retry_delay |-> 1]
    /\ pure_out = [op |-> "none"]
    /\ server = <<>>
    /\ pag = <<>>
    /\ threads = <<>>
    /\ transport = <<>>
    /\ builder = <<>>
    /\ handler = <<>>

NextProduct ==
    \/ \E key \in Elements(SavedKeys), value \in Values : ProductSet(key, value)
    \/ \E result \in MutationResults : ProductSave(result)

SpecProduct == InitProduct /\ [][NextProduct]_vars

\* the answer of the client makes the save fail: user errors, or no
\* product returned
FailingResult(result) ==
    /\ result.kind # "raises"
    /\ result.kind # "productUpdate" \/ result.userErrors > 0 \/ result.product = <<>>

====
